---- MODULE Spec2Model ----
(***************************************************************************)
(* A model of prettytable.PrettyTable (src/prettytable/prettytable.py).    *)
(*                                                                         *)
(* Python values are represented as follows.                               *)
(*   str          a TLA+ string over printable ASCII, "\n" and "\f"        *)
(*   None / x     Optional values are tuples: <<>> is None, <<x>> is x     *)
(*   dict         a function whose DOMAIN is the set of keys               *)
(*   list         a sequence                                               *)
(*   exceptions   a string naming the exception class, "" when none        *)
(* A method that can change the object is an operator from the object (a   *)
(* record named self) to a record holding the object afterwards, the name  *)
(* of the exception raised and the value returned.                         *)
(***************************************************************************)
EXTENDS Integers, Sequences, FiniteSets, TLC

----------------------------------------------------------------------------
(* Python built-ins used by the program.                                   *)

None == <<>>

Some(x) == <<x>>

IsNone(x) == x = <<>>

Val(x) == x[1]

Max2(a, b) == IF a >= b THEN a ELSE b

Min2(a, b) == IF a <= b THEN a ELSE b

RECURSIVE SumSeq(_)
SumSeq(s) == IF s = <<>> THEN 0 ELSE s[1] + SumSeq(Tail(s))

RECURSIVE MaxSeq(_)
MaxSeq(s) == IF Len(s) = 1 THEN s[1] ELSE Max2(s[1], MaxSeq(Tail(s)))

(* n * " " : the empty string when n <= 0 *)
RECURSIVE Rep(_, _)
Rep(c, n) == IF n <= 0 THEN "" ELSE c \o Rep(c, n - 1)

RECURSIVE Join(_, _)
Join(sep, parts) ==
    IF parts = <<>> THEN ""
    ELSE IF Len(parts) = 1 THEN parts[1]
    ELSE parts[1] \o sep \o Join(sep, Tail(parts))

(* text.split(sep) for a one-character separator *)
RECURSIVE SplitFrom(_, _, _, _)
SplitFrom(text, sep, i, start) ==
    IF i > Len(text) THEN << SubSeq(text, start, Len(text)) >>
    ELSE IF SubSeq(text, i, i) = sep
         THEN << SubSeq(text, start, i - 1) >> \o SplitFrom(text, sep, i + 1, i + 1)
         ELSE SplitFrom(text, sep, i + 1, start)

Split(text, sep) == SplitFrom(text, sep, 1, 1)

RECURSIVE FlatLines(_)
FlatLines(parts) ==
    IF parts = <<>> THEN <<>> ELSE Split(parts[1], "\n") \o FlatLines(Tail(parts))

(* int(x) and math.ceil(x) of the quotient num / den, den # 0 *)
FloorDiv(num, den) == IF den > 0 THEN num \div den ELSE (0 - num) \div (0 - den)

TruncDiv(num, den) ==
    LET q == FloorDiv(num, den)
    IN IF q < 0 /\ q * den # num THEN q + 1 ELSE q

CeilDiv(num, den) ==
    LET q == FloorDiv(num, den)
    IN IF q * den # num THEN q + 1 ELSE q

(* the characters of the model's strings and their code points *)
Segments ==
    << [first |-> 32, chars |-> " !\"#$%&'()*+,-./0123456789:;<=>?@ABCDEFGHIJKLMNOPQRSTUVWXYZ[\\]^_"],
       [first |-> 97, chars |-> "abcdefghijklmnopqrstuvwxyz{|}~"],
       [first |-> 10, chars |-> "\n"],
       [first |-> 12, chars |-> "\f"] >>

OrdTable ==
    [c \in UNION {{SubSeq(Segments[k].chars, i, i) : i \in 1..Len(Segments[k].chars)} :
                     k \in 1..Len(Segments)} |->
        LET k == CHOOSE k \in 1..Len(Segments) :
                     \E i \in 1..Len(Segments[k].chars) : SubSeq(Segments[k].chars, i, i) = c
            i == CHOOSE i \in 1..Len(Segments[k].chars) : SubSeq(Segments[k].chars, i, i) = c
        IN Segments[k].first + i - 1]

chr(n) ==
    CHOOSE c \in DOMAIN OrdTable : OrdTable[c] = n

ord(c) == OrdTable[c]

Ords(text) == [i \in 1..Len(text) |-> ord(SubSeq(text, i, i))]

IsLower(c) == ord(c) >= 97 /\ ord(c) <= 122

IsUpper(c) == ord(c) >= 65 /\ ord(c) <= 90

UpperChar(c) == IF IsLower(c) THEN chr(ord(c) - 32) ELSE c

LowerChar(c) == IF IsUpper(c) THEN chr(ord(c) + 32) ELSE c

RECURSIVE str_upper(_)
str_upper(s) == IF s = "" THEN "" ELSE UpperChar(SubSeq(s, 1, 1)) \o str_upper(Tail(s))

RECURSIVE str_lower(_)
str_lower(s) == IF s = "" THEN "" ELSE LowerChar(SubSeq(s, 1, 1)) \o str_lower(Tail(s))

str_capitalize(s) == IF s = "" THEN "" ELSE UpperChar(SubSeq(s, 1, 1)) \o str_lower(Tail(s))

(* str.title(): a cased character is upper-cased after an uncased one *)
RECURSIVE TitleFrom(_, _)
TitleFrom(s, prevCased) ==
    IF s = "" THEN ""
    ELSE LET c == SubSeq(s, 1, 1)
             cased == IsLower(c) \/ IsUpper(c)
         IN (IF prevCased THEN LowerChar(c) ELSE UpperChar(c)) \o TitleFrom(Tail(s), cased)

str_title(s) == TitleFrom(s, FALSE)

----------------------------------------------------------------------------
(* UNICODE WIDTH FUNCTIONS                                                 *)

(* unicodedata.combining(chr(char)) # 0, on the Combining Diacritical Marks *)
IsCombining(char) == char >= 768 /\ char <= 879

_char_block_width(char) ==
    IF 33 <= char /\ char <= 126 THEN 1
    ELSE IF 19968 <= char /\ char <= 40959 THEN 2
    ELSE IF 44032 <= char /\ char <= 55215 THEN 2
    ELSE IF IsCombining(char) THEN 0
    ELSE IF (12352 <= char /\ char <= 12447) \/ (12448 <= char /\ char <= 12543) THEN 2
    ELSE IF 65281 <= char /\ char <= 65376 THEN 2
    ELSE IF 12288 <= char /\ char <= 12350 THEN 2
    ELSE IF char \in {8, 127} THEN 0 - 1
    ELSE IF char \in {0, 15, 31} THEN 0
    ELSE 1

(* the number of leading code points of cps, from index i, that match [0-9;] *)
RECURSIVE SgrParams(_, _)
SgrParams(cps, i) ==
    IF i <= Len(cps) /\ ((cps[i] >= 48 /\ cps[i] <= 57) \/ cps[i] = 59)
    THEN 1 + SgrParams(cps, i + 1)
    ELSE 0

(* _re.sub("", val) with _re = "\033\[[0-9;]*m", on code points *)
RECURSIVE _re_sub(_, _)
_re_sub(cps, i) ==
    IF i > Len(cps) THEN <<>>
    ELSE IF cps[i] = 27 /\ i + 1 <= Len(cps) /\ cps[i + 1] = 91
         THEN LET k == SgrParams(cps, i + 2)
              IN IF i + 2 + k <= Len(cps) /\ cps[i + 2 + k] = 109
                 THEN _re_sub(cps, i + 3 + k)
                 ELSE << cps[i] >> \o _re_sub(cps, i + 1)
         ELSE << cps[i] >> \o _re_sub(cps, i + 1)

cps_block_width(cps) ==
    LET kept == _re_sub(cps, 1)
    IN SumSeq([i \in 1..Len(kept) |-> _char_block_width(kept[i])])

_str_block_width(val) == cps_block_width(Ords(val))

_get_size(text) ==
    LET lines == Split(text, "\n")
    IN [width |-> MaxSeq([i \in 1..Len(lines) |-> _str_block_width(lines[i])]),
        height |-> Len(lines)]

----------------------------------------------------------------------------
(* dict operations                                                         *)

EmptyDict == <<>>

DictSet(d, k, v) == [x \in DOMAIN d \cup {k} |-> IF x = k THEN v ELSE d[x]]

(* for field in names: d[field] = v *)
RECURSIVE DictSetAll(_, _, _)
DictSetAll(d, names, v) ==
    IF names = <<>> THEN d ELSE DictSetAll(DictSet(d, names[1], v), Tail(names), v)

Truthy(d) == DOMAIN d # {}

SeqToSet(s) == {s[i] : i \in 1..Len(s)}

(* list.index(x): the first position of x *)
Index(s, x) == CHOOSE i \in 1..Len(s) : s[i] = x /\ \A j \in 1..(i - 1) : s[j] # x

----------------------------------------------------------------------------
(* class PrettyTable                                                       *)

PTE == "PrettyTableException"

RuleStyle == {"NONE", "FRAME", "HEADER", "ALL"}

(* the table after PrettyTable() *)
__init__ ==
    [_field_names |-> <<>>,
     _rows |-> <<>>,
     _align |-> EmptyDict,
     _valign |-> EmptyDict,
     _max_width |-> EmptyDict,
     _min_width |-> EmptyDict,
     _int_format |-> EmptyDict,
     _float_format |-> EmptyDict,
     _widths |-> <<>>,
     _hrule |-> "",
     _title |-> None,
     _start |-> 0,
     _end |-> None,
     _fields |-> None,
     _header |-> TRUE,
     _header_style |-> None,
     _border |-> TRUE,
     _hrules |-> "FRAME",
     _vrules |-> "ALL",
     _sortby |-> None,
     _reversesort |-> FALSE,
     _sort_key |-> "identity",
     _min_table_width |-> None,
     _max_table_width |-> None,
     _padding_width |-> 1,
     _left_padding_width |-> None,
     _right_padding_width |-> None,
     _vertical_char |-> "|",
     _horizontal_char |-> "-",
     _junction_char |-> "+",
     _print_empty |-> TRUE,
     _oldsortslice |-> FALSE,
     _format |-> FALSE,
     _xhtml |-> FALSE,
     _attributes |-> EmptyDict]

_options ==
    {"title", "start", "end", "fields", "header", "border", "sortby", "reversesort", "sort_key",
     "attributes", "format", "hrules", "vrules", "int_format", "float_format", "min_table_width",
     "max_table_width", "padding_width", "left_padding_width", "right_padding_width",
     "vertical_char", "horizontal_char", "junction_char", "header_style", "valign", "xhtml",
     "print_empty", "oldsortslice", "align", "max_width", "min_width"}

(* getattr(self, "_" + option) *)
Attr(self, option) == self["_" \o option]

(* the outcome of a call: the object afterwards, the exception, the value *)
Ok(self) == [self |-> self, raised |-> "", ret |-> ""]

Raise(self, exc) == [self |-> self, raised |-> exc, ret |-> ""]

rowcount(self) == Len(self._rows)

----------------------------------------------------------------------------
(* ATTRIBUTE VALIDATORS: "" when the value is accepted, else the exception *)

_validate_field_names(self, val) ==
    IF self._field_names # <<>> /\ self._rows # <<>> /\ Len(val) # Len(self._field_names)
    THEN PTE
    ELSE IF self._rows # <<>> /\ Len(val) # Len(self._rows[1])
    THEN PTE
    ELSE IF Len(val) # Cardinality(SeqToSet(val))
    THEN PTE
    ELSE ""

_validate_header_style(val) ==
    IF val \in {Some("cap"), Some("title"), Some("upper"), Some("lower"), None} THEN "" ELSE PTE

_validate_align(val) == IF val \in {"l", "c", "r"} THEN "" ELSE PTE

_validate_valign(val) == IF val \in {Some("t"), Some("m"), Some("b"), None} THEN "" ELSE PTE

_validate_nonnegative_int(val) == IF val >= 0 THEN "" ELSE PTE

_validate_optional_nonnegative_int(val) ==
    IF val # None THEN _validate_nonnegative_int(Val(val)) ELSE ""

_validate_true_or_false(val) == IF val \in BOOLEAN THEN "" ELSE PTE

_validate_hrules(val) == IF val \in {"NONE", "ALL", "FRAME", "HEADER"} THEN "" ELSE PTE

_validate_vrules(val) == IF val \in {"NONE", "ALL", "FRAME"} THEN "" ELSE PTE

_validate_field_name(self, val) ==
    IF val = None \/ Val(val) \in SeqToSet(self._field_names) THEN "" ELSE PTE

_validate_all_field_names(self, val) ==
    IF \A i \in 1..Len(val) : _validate_field_name(self, Some(val[i])) = "" THEN "" ELSE PTE

_validate_equal_field_names(self, names) ==
    IF Cardinality(names) = Len(self._field_names) /\ names = SeqToSet(self._field_names)
    THEN "" ELSE PTE

_validate_single_char(val) == IF _str_block_width(val) = 1 THEN "" ELSE PTE

IsDigit(c) == ord(c) >= 48 /\ ord(c) <= 57

(* re.match("[+-]? ?[0-9]+", val): a match at the start of val *)
_validate_int_format(val) ==
    IF val = "" THEN ""
    ELSE LET i1 == IF SubSeq(val, 1, 1) \in {"+", "-"} THEN 2 ELSE 1
             i2 == IF i1 <= Len(val) /\ SubSeq(val, i1, i1) = " " THEN i1 + 1 ELSE i1
         IN IF i2 <= Len(val) /\ IsDigit(SubSeq(val, i2, i2)) THEN "" ELSE PTE

(* re.match of the float format pattern: an optional sign, digits and a "." *)
RECURSIVE SkipDigits(_, _)
SkipDigits(val, i) ==
    IF i <= Len(val) /\ IsDigit(SubSeq(val, i, i)) THEN SkipDigits(val, i + 1) ELSE i

_validate_float_format(val) ==
    IF val = "" THEN ""
    ELSE LET i1 == IF SubSeq(val, 1, 1) \in {"+", "-"} THEN 2 ELSE 1
             i2 == SkipDigits(val, i1)
         IN IF i2 <= Len(val) /\ SubSeq(val, i2, i2) = "." THEN "" ELSE PTE

_validate_option(self, option, val) ==
    CASE option = "field_names" -> _validate_field_names(self, val)
      [] option \in {"start", "padding_width"} -> _validate_nonnegative_int(val)
      [] option = "format" -> ""
      [] option \in {"end", "max_width", "min_width", "min_table_width", "max_table_width",
                     "left_padding_width", "right_padding_width"} ->
             _validate_optional_nonnegative_int(val)
      [] option = "sortby" -> _validate_field_name(self, val)
      [] option = "sort_key" -> ""
      [] option = "hrules" -> _validate_hrules(val)
      [] option = "vrules" -> _validate_vrules(val)
      [] option = "fields" -> IF val = None THEN PTE ELSE _validate_all_field_names(self, Val(val))
      [] option \in {"header", "border", "reversesort", "xhtml", "print_empty", "oldsortslice"} ->
             _validate_true_or_false(val)
      [] option = "header_style" -> _validate_header_style(val)
      [] option = "int_format" -> _validate_int_format(val)
      [] option = "float_format" -> _validate_float_format(val)
      [] option \in {"vertical_char", "horizontal_char", "junction_char"} ->
             _validate_single_char(val)
      [] OTHER -> ""

----------------------------------------------------------------------------
(* ATTRIBUTE MANAGEMENT                                                    *)

(* align.setter; val is None or Some(alignment) *)
align_setter(self, val) ==
    IF self._field_names = <<>>
    THEN Ok([self EXCEPT !._align = EmptyDict])
    ELSE IF val = None
    THEN Ok([self EXCEPT !._align = DictSetAll(self._align, self._field_names, "c")])
    ELSE IF _validate_align(Val(val)) # ""
    THEN Raise(self, PTE)
    ELSE Ok([self EXCEPT !._align = DictSetAll(self._align, self._field_names, Val(val))])

(* valign.setter for None or a single alignment; val is None or Some(alignment) *)
valign_setter(self, val) ==
    IF self._field_names = <<>>
    THEN Ok([self EXCEPT !._valign = EmptyDict])
    ELSE IF val = None
    THEN Ok([self EXCEPT !._valign = DictSetAll(self._valign, self._field_names, Some("t"))])
    ELSE IF _validate_valign(val) # ""
    THEN Raise(self, PTE)
    ELSE Ok([self EXCEPT !._valign = DictSetAll(self._valign, self._field_names, val)])

(* the keys of a dict given as the list of its items, in insertion order *)
Keys(items) == {items[i][1] : i \in 1..Len(items)}

(* for field, val in val.items(): self._validate_valign(val);              *)
(* self._valign[field] = val                                               *)
RECURSIVE ValignItems(_, _)
ValignItems(self, items) ==
    IF items = <<>> THEN Ok(self)
    ELSE IF _validate_valign(items[1][2]) # "" THEN Raise(self, PTE)
    ELSE ValignItems([self EXCEPT !._valign = DictSet(self._valign, items[1][1], items[1][2])],
                     Tail(items))

(* valign.setter for a dict; val is the list of its items *)
valign_setter_dict(self, val) ==
    IF self._field_names = <<>>
    THEN Ok([self EXCEPT !._valign = EmptyDict])
    ELSE IF val = <<>>
    THEN Ok([self EXCEPT !._valign = DictSetAll(self._valign, self._field_names, Some("t"))])
    ELSE IF _validate_equal_field_names(self, Keys(val)) # ""
    THEN Raise(self, PTE)
    ELSE ValignItems(self, val)

(* int_format.setter for None or a single format; val is None or Some(format) *)
int_format_setter(self, val) ==
    IF val = None
    THEN Ok([self EXCEPT !._int_format = EmptyDict])
    ELSE IF _validate_option(self, "int_format", Val(val)) # ""
    THEN Raise(self, PTE)
    ELSE Ok([self EXCEPT !._int_format = DictSetAll(self._int_format, self._field_names, Val(val))])

(* int_format.setter for a dict; val is the list of its items: the new     *)
(* dict is built aside and assigned when every entry has been validated    *)
int_format_setter_dict(self, val) ==
    IF val = <<>>
    THEN Ok([self EXCEPT !._int_format = EmptyDict])
    ELSE IF _validate_equal_field_names(self, Keys(val)) # ""
    THEN Raise(self, PTE)
    ELSE IF \E i \in 1..Len(val) : _validate_option(self, "int_format", val[i][2]) # ""
    THEN Raise(self, PTE)
    ELSE Ok([self EXCEPT !._int_format =
                [field \in Keys(val) |-> val[CHOOSE i \in 1..Len(val) : val[i][1] = field][2]]])

(* {new_name: d[old_name] for old_name, new_name in zip(old_names, new_names)} *)
ZipLen(old_names, new_names) == Min2(Len(old_names), Len(new_names))

RemapRaises(d, old_names, new_names) ==
    \E i \in 1..ZipLen(old_names, new_names) : old_names[i] \notin DOMAIN d

Remap(d, old_names, new_names) ==
    [n \in {new_names[i] : i \in 1..ZipLen(old_names, new_names)} |->
        LET i == CHOOSE i \in 1..ZipLen(old_names, new_names) :
                     new_names[i] = n /\ \A j \in (i + 1)..ZipLen(old_names, new_names) : new_names[j] # n
        IN d[old_names[i]]]

(* field_names.setter; val is a list of str *)
field_names_setter(self, val) ==
    IF _validate_option(self, "field_names", val) # ""
    THEN Raise(self, PTE)
    ELSE LET old_names == self._field_names
             s1 == [self EXCEPT !._field_names = val]
         IN IF Truthy(s1._align) /\ old_names # <<>> /\ RemapRaises(s1._align, old_names, val)
            THEN Raise(s1, "KeyError")
            ELSE LET s2 == IF Truthy(s1._align) /\ old_names # <<>>
                           THEN [s1 EXCEPT !._align = Remap(s1._align, old_names, val)]
                           ELSE align_setter(s1, Some("c")).self
                 IN IF Truthy(s2._valign) /\ old_names # <<>> /\ RemapRaises(s2._valign, old_names, val)
                    THEN Raise(s2, "KeyError")
                    ELSE IF Truthy(s2._valign) /\ old_names # <<>>
                         THEN Ok([s2 EXCEPT !._valign = Remap(s2._valign, old_names, val)])
                         ELSE valign_setter(s2, Some("t"))

(* max_width.setter; val is None or Some(int) *)
max_width_setter(self, val) ==
    IF val = None
    THEN Ok([self EXCEPT !._max_width = EmptyDict])
    ELSE IF _validate_option(self, "max_width", val) # ""
    THEN Raise(self, PTE)
    ELSE Ok([self EXCEPT !._max_width = DictSetAll(self._max_width, self._field_names, Val(val))])

(* min_width.setter; val is None or Some(int) *)
min_width_setter(self, val) ==
    IF val = None
    THEN Ok([self EXCEPT !._min_width = EmptyDict])
    ELSE IF _validate_option(self, "min_width", val) # ""
    THEN Raise(self, PTE)
    ELSE Ok([self EXCEPT !._min_width = DictSetAll(self._min_width, self._field_names, Val(val))])

(* the setters that validate the value and store it: min_table_width,     *)
(* max_table_width, fields, start, end, sortby, reversesort, header,       *)
(* border, hrules, vrules, padding_width, left_padding_width,              *)
(* right_padding_width, vertical_char, horizontal_char, print_empty,       *)
(* oldsortslice, header_style                                              *)
option_setter(self, option, val) ==
    IF _validate_option(self, option, val) # ""
    THEN Raise(self, PTE)
    ELSE Ok([self EXCEPT !["_" \o option] = val])

(* title.setter: self._title = self._unicode(val), for val a str *)
title_setter(self, val) == Ok([self EXCEPT !._title = Some(val)])

----------------------------------------------------------------------------
(* DATA INPUT METHODS                                                      *)

(* a cell value: a str ([kind |-> "str", s |-> text]) or an int *)
StrCell(text) == [kind |-> "str", s |-> text, n |-> 0]

IntCell(i) == [kind |-> "int", s |-> "", n |-> i]

Digits == "0123456789"

RECURSIVE NatToStr(_)
NatToStr(i) ==
    IF i < 10 THEN SubSeq(Digits, i + 1, i + 1)
    ELSE NatToStr(i \div 10) \o SubSeq(Digits, (i % 10) + 1, (i % 10) + 1)

IntToStr(i) == IF i < 0 THEN "-" \o NatToStr(0 - i) ELSE NatToStr(i)

(* [("Field %d" % (n + 1)) for n in range(0, len(row))] *)
DefaultFieldNames(row) == [i \in 1..Len(row) |-> "Field " \o IntToStr(i)]

(* add_row without the check of the length of the row *)
AppendsAnyRow(self, row) == Ok([self EXCEPT !._rows = Append(self._rows, row)])

add_row(self, row) ==
    IF self._field_names # <<>> /\ Len(row) # Len(self._field_names)
    THEN Raise(self, PTE)
    ELSE LET r1 == IF self._field_names = <<>>
                   THEN field_names_setter(self, DefaultFieldNames(row))
                   ELSE Ok(self)
         IN IF r1.raised # ""
            THEN r1
            ELSE Ok([r1.self EXCEPT !._rows = Append(r1.self._rows, row)])

(* del self._rows[row_index], for a Python index that may be negative *)
del_row(self, row_index) ==
    IF row_index > Len(self._rows) - 1
    THEN Raise(self, PTE)
    ELSE IF row_index < 0 - Len(self._rows)
    THEN Raise(self, "IndexError")
    ELSE LET k == IF row_index < 0 THEN row_index + Len(self._rows) + 1 ELSE row_index + 1
         IN Ok([self EXCEPT !._rows = SubSeq(self._rows, 1, k - 1) \o
                                       SubSeq(self._rows, k + 1, Len(self._rows))])

(* add_column that appends the field name before it validates align and valign *)
NamesBeforeValidating(self, fieldname, column, align, valign) ==
    IF Len(self._rows) \in {0, Len(column)}
    THEN IF _validate_align(align) # "" \/ _validate_valign(valign) # ""
         THEN Raise([self EXCEPT !._field_names = Append(self._field_names, fieldname)], PTE)
         ELSE Ok([self EXCEPT
                    !._field_names = Append(self._field_names, fieldname),
                    !._align = DictSet(self._align, fieldname, align),
                    !._valign = DictSet(self._valign, fieldname, valign),
                    !._rows = [i \in 1..Len(column) |->
                                 IF i <= Len(self._rows)
                                 THEN Append(self._rows[i], column[i])
                                 ELSE << column[i] >>]])
    ELSE Raise(self, PTE)

(* add_column that leaves the alignment of the new column unset *)
ForgetsAlign(self, fieldname, column, align, valign) ==
    IF Len(self._rows) \in {0, Len(column)}
    THEN IF _validate_align(align) # "" \/ _validate_valign(valign) # ""
         THEN Raise(self, PTE)
         ELSE Ok([self EXCEPT
                    !._field_names = Append(self._field_names, fieldname),
                    !._valign = DictSet(self._valign, fieldname, valign),
                    !._rows = [i \in 1..Len(column) |->
                                 IF i <= Len(self._rows)
                                 THEN Append(self._rows[i], column[i])
                                 ELSE << column[i] >>]])
    ELSE Raise(self, PTE)

add_column(self, fieldname, column, align, valign) ==
    IF Len(self._rows) \in {0, Len(column)}
    THEN IF _validate_align(align) # "" \/ _validate_valign(valign) # ""
         THEN Raise(self, PTE)
         ELSE Ok([self EXCEPT
                    !._field_names = Append(self._field_names, fieldname),
                    !._align = DictSet(self._align, fieldname, align),
                    !._valign = DictSet(self._valign, fieldname, valign),
                    !._rows = [i \in 1..Len(column) |->
                                 IF i <= Len(self._rows)
                                 THEN Append(self._rows[i], column[i])
                                 ELSE << column[i] >>]])
    ELSE Raise(self, PTE)

clear_rows(self) == Ok([self EXCEPT !._rows = <<>>])

clear(self) == Ok([self EXCEPT !._rows = <<>>, !._field_names = <<>>, !._widths = <<>>])

----------------------------------------------------------------------------
(* textwrap.fill(text, width) of the standard library, with the default    *)
(* TextWrapper options, for one line of text without tabs and hyphens.     *)

IsSpace(c) == c \in {" ", "\n", "\f"}

IsBlank(chunk) == \A i \in 1..Len(chunk) : IsSpace(SubSeq(chunk, i, i))

(* the end of the run of characters of one class that starts at i *)
RECURSIVE RunEnd(_, _)
RunEnd(text, i) ==
    IF i < Len(text) /\ IsSpace(SubSeq(text, i + 1, i + 1)) = IsSpace(SubSeq(text, i, i))
    THEN RunEnd(text, i + 1)
    ELSE i

(* TextWrapper._split: runs of whitespace and runs of other characters *)
RECURSIVE _split(_, _)
_split(text, i) ==
    IF i > Len(text) THEN <<>>
    ELSE LET e == RunEnd(text, i) IN << SubSeq(text, i, e) >> \o _split(text, e + 1)

(* how many leading chunks fit on the current line *)
RECURSIVE FitCount(_, _, _, _)
FitCount(chunks, k, cur_len, width) ==
    IF k < Len(chunks) /\ cur_len + Len(chunks[k + 1]) <= width
    THEN FitCount(chunks, k + 1, cur_len + Len(chunks[k + 1]), width)
    ELSE k

(* TextWrapper._wrap_chunks with _handle_long_word, for width >= 1 *)
RECURSIVE _wrap_chunks(_, _, _)
_wrap_chunks(chunks, width, lines) ==
    IF chunks = <<>> THEN lines
    ELSE LET c0 == IF IsBlank(chunks[1]) /\ lines # <<>> THEN Tail(chunks) ELSE chunks
             k == FitCount(c0, 0, 0, width)
             cur1 == SubSeq(c0, 1, k)
             rest1 == SubSeq(c0, k + 1, Len(c0))
             cur_len == SumSeq([i \in 1..k |-> Len(cur1[i])])
             long == rest1 # <<>> /\ Len(rest1[1]) > width
             space_left == width - cur_len
             cur2 == IF long THEN Append(cur1, SubSeq(rest1[1], 1, space_left)) ELSE cur1
             rest2 == IF long
                      THEN << SubSeq(rest1[1], space_left + 1, Len(rest1[1])) >> \o Tail(rest1)
                      ELSE rest1
             cur3 == IF cur2 # <<>> /\ IsBlank(cur2[Len(cur2)])
                     THEN SubSeq(cur2, 1, Len(cur2) - 1)
                     ELSE cur2
         IN _wrap_chunks(rest2, width, IF cur3 # <<>> THEN Append(lines, Join("", cur3)) ELSE lines)

(* raises ValueError when width <= 0 *)
textwrap_fill(text, width) ==
    IF width <= 0
    THEN [raised |-> "ValueError", ret |-> ""]
    ELSE [raised |-> "", ret |-> Join("\n", _wrap_chunks(_split(text, 1), width, <<>>))]

----------------------------------------------------------------------------
(* MISC PRIVATE METHODS                                                    *)

(* _justify that puts the odd space of a centred text always on the left *)
CentersLeft(text, width, align) ==
    LET excess == width - _str_block_width(text)
    IN IF align = "l" THEN text \o Rep(" ", excess)
       ELSE IF align = "r" THEN Rep(" ", excess) \o text
       ELSE IF excess % 2 = 1
            THEN Rep(" ", FloorDiv(excess, 2) + 1) \o text \o Rep(" ", FloorDiv(excess, 2))
            ELSE Rep(" ", FloorDiv(excess, 2)) \o text \o Rep(" ", FloorDiv(excess, 2))

_justify(text, width, align) ==
    LET excess == width - _str_block_width(text)
    IN IF align = "l" THEN text \o Rep(" ", excess)
       ELSE IF align = "r" THEN Rep(" ", excess) \o text
       ELSE IF excess % 2 = 1
            THEN IF _str_block_width(text) % 2 = 1
                 THEN Rep(" ", FloorDiv(excess, 2)) \o text \o Rep(" ", FloorDiv(excess, 2) + 1)
                 ELSE Rep(" ", FloorDiv(excess, 2) + 1) \o text \o Rep(" ", FloorDiv(excess, 2))
            ELSE Rep(" ", FloorDiv(excess, 2)) \o text \o Rep(" ", FloorDiv(excess, 2))

(* _unicode(value): str(value) *)
_unicode(value) == IF value.kind = "int" THEN IntToStr(value.n) ELSE value.s

(* ("%" + fmt + "d") % n, for fmt of the form [+-]? ?[0-9]* *)
FmtFlags(fmt) ==
    LET i1 == IF fmt # "" /\ SubSeq(fmt, 1, 1) \in {"+", "-"} THEN 2 ELSE 1
        i2 == IF i1 <= Len(fmt) /\ SubSeq(fmt, i1, i1) = " " THEN i1 + 1 ELSE i1
        i3 == SkipDigits(fmt, i2)
    IN [plus |-> i1 = 2 /\ SubSeq(fmt, 1, 1) = "+",
        minus |-> i1 = 2 /\ SubSeq(fmt, 1, 1) = "-",
        space |-> i2 > i1,
        zero |-> i2 <= Len(fmt) /\ SubSeq(fmt, i2, i2) = "0",
        digits |-> SubSeq(fmt, i2, i3 - 1)]

RECURSIVE StrToNat(_)
StrToNat(digits) ==
    IF digits = "" THEN 0
    ELSE 10 * StrToNat(SubSeq(digits, 1, Len(digits) - 1)) + (ord(SubSeq(digits, Len(digits), Len(digits))) - 48)

PercentD(fmt, n) ==
    LET f == FmtFlags(fmt)
        width == StrToNat(f.digits)
        sign == IF n < 0 THEN "-" ELSE IF f.plus THEN "+" ELSE IF f.space THEN " " ELSE ""
        body == NatToStr(IF n < 0 THEN 0 - n ELSE n)
        pad == width - Len(sign) - Len(body)
    IN IF f.minus THEN sign \o body \o Rep(" ", pad)
       ELSE IF f.zero THEN sign \o Rep("0", pad) \o body
       ELSE Rep(" ", pad) \o sign \o body

_format_value(self, field, value) ==
    IF value.kind = "int" /\ field \in DOMAIN self._int_format
    THEN PercentD(self._int_format[field], value.n)
    ELSE _unicode(value)

_get_padding_widths(options) ==
    [lpad |-> IF options.left_padding_width # None
              THEN Val(options.left_padding_width) ELSE options.padding_width,
     rpad |-> IF options.right_padding_width # None
              THEN Val(options.right_padding_width) ELSE options.padding_width]


(* the min_width property: the stored minimum floored by the width of the  *)
(* header, or of the first row's values when the header is off             *)
min_width(self) ==
    LET fields == IF self._header
                  THEN [i \in 1..Len(self._field_names) |-> StrCell(self._field_names[i])]
                  ELSE IF self._rows # <<>> THEN self._rows[1] ELSE <<>>
        n == Min2(Len(self._field_names), Len(fields))
    IN [field_name \in {self._field_names[i] : i \in 1..n} |->
          LET i == CHOOSE i \in 1..n :
                       self._field_names[i] = field_name /\
                       \A j \in (i + 1)..n : self._field_names[j] # field_name
              name == fields[i]
          IN Max2(_str_block_width(_unicode(name)),
                  IF name.kind = "str" /\ name.s \in DOMAIN self._min_width
                  THEN self._min_width[name.s] ELSE 0)]

IsShown(options, fieldname) ==
    options.fields = None \/ Val(options.fields) = <<>> \/ fieldname \in SeqToSet(Val(options.fields))

HasTitle(options) == options.title # None /\ Val(options.title) # ""

VrulesCount(self, options) ==
    (IF options.vrules \in {"ALL", "FRAME"} THEN 2 ELSE 0) +
    Max2(Len(self._field_names) - 1, 0) * (IF options.vrules = "ALL" THEN 1 ELSE 0)

_compute_table_width(self, options, widths) ==
    LET pw == _get_padding_widths(options)
        title_width == IF HasTitle(options) THEN Len(Val(options.title)) + pw.lpad + pw.rpad ELSE 0
        per_col_padding == pw.lpad + pw.rpad
        table_width == VrulesCount(self, options) +
                       SumSeq([i \in 1..Len(self._field_names) |->
                                 IF IsShown(options, self._field_names[i])
                                 THEN widths[i] + per_col_padding ELSE 0])
    IN Max2(table_width, title_width)

(* the widths after the loop over the rows: for every row in turn and every *)
(* value of it the column's width is raised                                *)
RECURSIVE BaseWidths(_, _, _)
BaseWidths(self, rows, widths) ==
    IF rows = <<>> THEN widths
    ELSE LET row == rows[1]
             mw == min_width(self)
             w1 == [index \in 1..Len(widths) |->
                      IF index > Len(row) THEN widths[index]
                      ELSE LET fieldname == self._field_names[index]
                               size == _get_size(row[index]).width
                               a == IF fieldname \in DOMAIN self._max_width
                                    THEN Max2(widths[index], Min2(size, self._max_width[fieldname]))
                                    ELSE Max2(widths[index], size)
                           IN IF fieldname \in DOMAIN mw THEN Max2(a, mw[fieldname]) ELSE a]
         IN BaseWidths(self, Tail(rows), w1)

(* True when the first adjustment (max_table_width exceeded) is applied *)
Shrinks(self, options, widths) ==
    /\ options.max_table_width # None
    /\ Val(options.max_table_width) # 0
    /\ _compute_table_width(self, options, widths) > Val(options.max_table_width)

PaddingCount(self, options) ==
    self._padding_width * Len(self._field_names) * (IF options.vrules = "ALL" THEN 2 ELSE 1)

ShrinkWidths(self, rows, options, widths) ==
    LET table_width == _compute_table_width(self, options, widths)
        vrules_count == VrulesCount(self, options)
        padding_width == PaddingCount(self, options)
        data_width == table_width - padding_width - vrules_count
        max_table_width == IF Val(options.max_table_width) < vrules_count + padding_width
                           THEN vrules_count + padding_width + Len(rows)
                           ELSE Val(options.max_table_width)
        num == max_table_width - padding_width - vrules_count
    IN IF data_width = 0 \/ (num >= data_width /\ data_width > 0) \/ (num <= data_width /\ data_width < 0)
       THEN widths
       ELSE [i \in 1..Len(widths) |-> TruncDiv(widths[i] * num, data_width)]

MinTableWidth(options) ==
    LET pw == _get_padding_widths(options)
        title_width == IF HasTitle(options) THEN Len(Val(options.title)) + pw.lpad + pw.rpad ELSE 0
        min_table_width == IF options.min_table_width # None THEN Val(options.min_table_width) ELSE 0
    IN Max2(title_width, min_table_width)

(* True when the second adjustment (under min_table_width or title) is applied *)
Grows(self, options, widths) ==
    /\ (options.min_table_width # None /\ Val(options.min_table_width) # 0) \/ HasTitle(options)
    /\ _compute_table_width(self, options, widths) < MinTableWidth(options)

GrowWidths(self, options, widths) ==
    LET table_width == _compute_table_width(self, options, widths)
        vrules_count == VrulesCount(self, options)
        extra_padding == PaddingCount(self, options)
        data_width == table_width - extra_padding - vrules_count
        num == MinTableWidth(options) - extra_padding - vrules_count
    IN IF data_width = 0 THEN widths
       ELSE [i \in 1..Len(widths) |-> CeilDiv(widths[i] * num, data_width)]

(* the widths returned, which are also the last value stored in self._widths; *)
(* the scale factors are exact quotients, which is what the floating point  *)
(* arithmetic of the program yields for the widths this model reaches       *)
_compute_widths(self, rows, options) ==
    LET w0 == IF options.header
              THEN [i \in 1..Len(self._field_names) |-> _get_size(self._field_names[i]).width]
              ELSE [i \in 1..Len(self._field_names) |-> 0]
        w1 == BaseWidths(self, rows, w0)
        w2 == IF Shrinks(self, options, w1) THEN ShrinkWidths(self, rows, options, w1) ELSE w1
    IN IF Grows(self, options, w2) THEN GrowWidths(self, options, w2) ELSE w2

(* the widths of _compute_widths before its two adjustments, and after the *)
(* first of them                                                           *)
WidthsBefore(self, rows, options) ==
    BaseWidths(self, rows,
               IF options.header
               THEN [i \in 1..Len(self._field_names) |-> _get_size(self._field_names[i]).width]
               ELSE [i \in 1..Len(self._field_names) |-> 0])

WidthsShrunk(self, rows, options) ==
    IF Shrinks(self, options, WidthsBefore(self, rows, options))
    THEN ShrinkWidths(self, rows, options, WidthsBefore(self, rows, options))
    ELSE WidthsBefore(self, rows, options)


----------------------------------------------------------------------------
(* OPTION MIXER                                                            *)

(* kwargs is a dict from option names to values *)
_get_options(self, kwargs) ==
    IF \E option \in _options \cap DOMAIN kwargs : _validate_option(self, option, kwargs[option]) # ""
    THEN [raised |-> PTE, options |-> <<>>]
    ELSE [raised |-> "",
          options |-> [option \in _options |->
                         IF option \in DOMAIN kwargs THEN kwargs[option] ELSE Attr(self, option)]]

----------------------------------------------------------------------------
(* the rows to print                                                       *)

(* rows[start:end] for start >= 0 and end None or >= 0 *)
Slice(rows, start, end) ==
    SubSeq(rows, start + 1, IF end = None THEN Len(rows) ELSE Min2(Val(end), Len(rows)))

RECURSIVE StrLess(_, _)
StrLess(a, b) ==
    IF b = "" THEN FALSE
    ELSE IF a = "" THEN TRUE
    ELSE IF SubSeq(a, 1, 1) # SubSeq(b, 1, 1) THEN ord(SubSeq(a, 1, 1)) < ord(SubSeq(b, 1, 1))
    ELSE StrLess(Tail(a), Tail(b))

(* the first position where two lists differ, 0 when one is a prefix of the other *)
FirstDiff(r1, r2) ==
    LET n == Min2(Len(r1), Len(r2))
    IN IF \E i \in 1..n : r1[i] # r2[i]
       THEN CHOOSE i \in 1..n : r1[i] # r2[i] /\ \A j \in 1..(i - 1) : r1[j] = r2[j]
       ELSE 0

(* r1 < r2 raises TypeError: an int is compared with a str *)
Incomparable(r1, r2) ==
    LET d == FirstDiff(r1, r2) IN d # 0 /\ r1[d].kind # r2[d].kind

(* r1 < r2 for two lists of values *)
ListLess(r1, r2) ==
    LET d == FirstDiff(r1, r2)
    IN IF d = 0 THEN Len(r1) < Len(r2)
       ELSE IF r1[d].kind = "int" THEN r1[d].n < r2[d].n
       ELSE StrLess(r1[d].s, r2[d].s)

(* sort_key(row) for the decorated row; "identity" is lambda x: x, the     *)
(* default, and "sortby_value" is lambda row: row[0], the value of the     *)
(* sortby column alone                                                     *)
ApplyKey(sort_key, row) == IF sort_key = "sortby_value" THEN << row[1] >> ELSE row

(* list.sort is stable, also with reverse=True *)
Before(sort_key, reverse, x, y) ==
    IF reverse THEN ListLess(ApplyKey(sort_key, y), ApplyKey(sort_key, x))
    ELSE ListLess(ApplyKey(sort_key, x), ApplyKey(sort_key, y))

RECURSIVE InsertSorted(_, _, _, _)
InsertSorted(sorted, x, sort_key, reverse) ==
    IF sorted = <<>> THEN << x >>
    ELSE IF Before(sort_key, reverse, x, sorted[1]) THEN << x >> \o sorted
    ELSE << sorted[1] >> \o InsertSorted(Tail(sorted), x, sort_key, reverse)

RECURSIVE SortRows(_, _, _)
SortRows(rows, sort_key, reverse) ==
    IF rows = <<>> THEN <<>>
    ELSE InsertSorted(SortRows(SubSeq(rows, 1, Len(rows) - 1), sort_key, reverse),
                      rows[Len(rows)], sort_key, reverse)

HasSortby(options) == options.sortby # None /\ Val(options.sortby) # ""

(* _get_rows without the upper bound of the range: rows[start:] *)
SlicesToTheLast(self, options) ==
    [raised |-> "", rows |-> Slice(self._rows, options.start, None), _rows |-> self._rows]

(* _get_rows that sorts first and slices afterwards whatever oldsortslice is *)
SlicesAfterSort(self, options) ==
    LET sortindex == Index(self._field_names, Val(options.sortby))
        decorated == [i \in 1..Len(self._rows) |-> << self._rows[i][sortindex] >> \o self._rows[i]]
        sorted == SortRows(decorated, options.sort_key, options.reversesort)
    IN [raised |-> "",
        rows |-> Slice(IF HasSortby(options) THEN [i \in 1..Len(sorted) |-> Tail(sorted[i])]
                       ELSE self._rows, options.start, options.end),
        _rows |-> self._rows]

(* _get_rows sorting self._rows itself instead of a deep copy *)
SortsStoredRows(self, options) ==
    LET sortindex == Index(self._field_names, Val(options.sortby))
        decorated == [i \in 1..Len(self._rows) |-> << self._rows[i][sortindex] >> \o self._rows[i]]
        sorted == SortRows(decorated, options.sort_key, options.reversesort)
        stored == IF HasSortby(options) /\ Val(options.sortby) \in SeqToSet(self._field_names)
                  THEN [i \in 1..Len(sorted) |-> Tail(sorted[i])] ELSE self._rows
    IN [raised |-> "", rows |-> Slice(stored, options.start, options.end), _rows |-> stored]

(* the rows returned, and the stored rows afterwards: the method works on a deep copy *)
_get_rows(self, options) ==
    LET rows0 == IF options.oldsortslice
                 THEN Slice(self._rows, options.start, options.end)
                 ELSE self._rows
        sortindex == Index(self._field_names, Val(options.sortby))
        decorated == [i \in 1..Len(rows0) |-> << rows0[i][sortindex] >> \o rows0[i]]
        sorted == SortRows(decorated, options.sort_key, options.reversesort)
        rows1 == IF HasSortby(options) THEN [i \in 1..Len(sorted) |-> Tail(sorted[i])] ELSE rows0
        rows2 == IF options.oldsortslice THEN rows1 ELSE Slice(rows1, options.start, options.end)
    IN IF HasSortby(options) /\ Val(options.sortby) \notin SeqToSet(self._field_names)
       THEN [raised |-> "ValueError", rows |-> <<>>, _rows |-> self._rows]
       ELSE IF HasSortby(options) /\ \E i \in 1..Len(rows0) : Len(rows0[i]) < sortindex
       THEN [raised |-> "IndexError", rows |-> <<>>, _rows |-> self._rows]
       ELSE IF HasSortby(options) /\
               \E i, j \in 1..Len(rows0) : Incomparable(ApplyKey(options.sort_key, decorated[i]),
                                                        ApplyKey(options.sort_key, decorated[j]))
       THEN [raised |-> "TypeError", rows |-> <<>>, _rows |-> self._rows]
       ELSE [raised |-> "", rows |-> rows2, _rows |-> self._rows]

(* zip(self._field_names, row) *)
_format_row(self, row) ==
    [i \in 1..Min2(Len(self._field_names), Len(row)) |->
        _format_value(self, self._field_names[i], row[i])]

_format_rows(self, rows) == [i \in 1..Len(rows) |-> _format_row(self, rows[i])]


----------------------------------------------------------------------------
(* PLAIN TEXT STRING METHODS                                               *)

Pop(bits) == SubSeq(bits, 1, Len(bits) - 1)

(* the positions of the fields that the fields option lets through, among  *)
(* the first n of zip(self._field_names, ...)                              *)
ShownIndexes(self, options, n) ==
    LET Keep(i) == ~(options.fields # None /\ Val(options.fields) # <<>> /\
                     self._field_names[i] \notin SeqToSet(Val(options.fields)))
    IN { i \in 1..n : Keep(i) }

(* the elements of a sequence of lists, concatenated in order *)
RECURSIVE Flatten(_)
Flatten(lists) == IF lists = <<>> THEN <<>> ELSE lists[1] \o Flatten(Tail(lists))

_stringify_hrule(self, widths, options) ==
    IF ~options.border THEN ""
    ELSE LET pw == _get_padding_widths(options)
             first == IF options.vrules \in {"ALL", "FRAME"}
                      THEN options.junction_char ELSE options.horizontal_char
             n == Min2(Len(self._field_names), Len(widths))
             shown == ShownIndexes(self, options, n)
             perField == [i \in 1..n |->
                            IF i \in shown
                            THEN << Rep(options.horizontal_char, widths[i] + pw.lpad + pw.rpad),
                                    IF options.vrules = "ALL"
                                    THEN options.junction_char ELSE options.horizontal_char >>
                            ELSE <<>>]
             bits == << first >> \o Flatten(perField)
         IN IF self._field_names = <<>>
            THEN first \o first
            ELSE IF options.vrules = "FRAME"
            THEN Join("", Append(Pop(bits), options.junction_char))
            ELSE Join("", bits)

(* reads self._hrule *)
_stringify_title(self, title, widths, options) ==
    LET pw == _get_padding_widths(options)
        rule == IF options.border /\ options.hrules # "NONE"
                THEN << _stringify_hrule(self, widths,
                            IF options.vrules = "ALL"
                            THEN [options EXCEPT !.vrules = "FRAME"] ELSE options) >>
                ELSE <<>>
        endpoint == IF options.vrules \in {"ALL", "FRAME"} THEN options.vertical_char ELSE " "
        padded == Rep(" ", pw.lpad) \o title \o Rep(" ", pw.rpad)
    IN Join("\n", rule \o << endpoint \o _justify(padded, Len(self._hrule) - 2, "c") \o endpoint >>)

HeaderText(self, field) ==
    IF self._header_style = Some("cap") THEN str_capitalize(field)
    ELSE IF self._header_style = Some("title") THEN str_title(field)
    ELSE IF self._header_style = Some("upper") THEN str_upper(field)
    ELSE IF self._header_style = Some("lower") THEN str_lower(field)
    ELSE field

(* if options["border"] and options["vrules"] == RuleStyle.FRAME:             *)
(*     bits.pop(); bits.append(options["vertical_char"])                   *)
FrameEnd(bits, options) ==
    IF options.border /\ options.vrules = "FRAME"
    THEN Append(Pop(bits), options.vertical_char) ELSE bits

(* if <rule>: bits.append("\n"); bits.append(self._hrule) *)
RuleBelow(bits, rule, hrule) == IF rule THEN bits \o << "\n", hrule >> ELSE bits

(* reads self._hrule and self._widths *)
_stringify_header(self, options) ==
    LET pw == _get_padding_widths(options)
        vchar == IF options.vrules \in {"ALL", "FRAME"} THEN options.vertical_char ELSE " "
        top == IF options.border
               THEN (IF options.hrules \in {"ALL", "FRAME"} THEN << self._hrule, "\n" >> ELSE <<>>)
                    \o << vchar >>
               ELSE <<>>
        nofields == IF self._field_names = <<>> THEN << vchar >> ELSE <<>>
        n == Min2(Len(self._field_names), Len(self._widths))
        shown == ShownIndexes(self, options, n)
        perField == [i \in 1..n |->
                       IF i \in shown
                       THEN << Rep(" ", pw.lpad) \o
                               _justify(HeaderText(self, self._field_names[i]), self._widths[i],
                                        self._align[self._field_names[i]]) \o
                               Rep(" ", pw.rpad) >> \o
                            (IF options.border
                             THEN << IF options.vrules = "ALL" THEN options.vertical_char ELSE " " >>
                             ELSE <<>>)
                       ELSE <<>>]
    IN IF \E i \in shown : self._field_names[i] \notin DOMAIN self._align
       THEN [raised |-> "KeyError", ret |-> ""]
       ELSE [raised |-> "",
             ret |-> Join("", RuleBelow(FrameEnd(top \o nofields \o Flatten(perField), options),
                                        options.border /\ options.hrules # "NONE", self._hrule))]

(* the value of a cell after "Enforce max widths" *)
WrapValue(value, width) ==
    LET lines == Split(value, "\n")
        new_lines == [i \in 1..Len(lines) |->
                        IF _str_block_width(lines[i]) > width
                        THEN textwrap_fill(lines[i], width).ret ELSE lines[i]]
    IN Join("\n", new_lines)

WrapRaises(value, width) ==
    LET lines == Split(value, "\n")
    IN \E i \in 1..Len(lines) : _str_block_width(lines[i]) > width /\ width <= 0

(* PadLines that puts the larger half before the lines for valign m *)
PadsMiddleLow(lines, row_height, valign) ==
    LET dHeight == row_height - Len(lines)
        blank(k) == [i \in 1..k |-> ""]
    IN IF dHeight = 0 THEN lines
       ELSE IF valign = Some("m")
       THEN blank(dHeight - (dHeight \div 2)) \o lines \o blank(dHeight \div 2)
       ELSE IF valign = Some("b") THEN blank(dHeight) \o lines
       ELSE lines \o blank(dHeight)

(* the lines of a cell, padded to the height of the row *)
PadLines(lines, row_height, valign) ==
    LET dHeight == row_height - Len(lines)
        blank(k) == [i \in 1..k |-> ""]
    IN IF dHeight = 0 THEN lines
       ELSE IF valign = Some("m")
       THEN blank(dHeight \div 2) \o lines \o blank(dHeight - (dHeight \div 2))
       ELSE IF valign = Some("b") THEN blank(dHeight) \o lines
       ELSE lines \o blank(dHeight)

(* the cells of a row after "Enforce max widths" *)
WrapRow(row, widths, n) ==
    [i \in 1..Len(row) |-> IF i <= n THEN WrapValue(row[i], widths[i]) ELSE row[i]]

(* row_height: the height of the tallest cell *)
RowHeight(wrapped) ==
    IF wrapped = <<>> THEN 0
    ELSE MaxSeq([i \in 1..Len(wrapped) |-> _get_size(wrapped[i]).height])

(* bits[y] of a row whose cells are wrapped, before the closing rule;      *)
(* reads self._valign, self._align and self.vertical_char                  *)
RowBits(self, wrapped, widths, options, n, row_height, y) ==
    LET pw == _get_padding_widths(options)
        shown == ShownIndexes(self, options, n)
        left == IF options.border
                THEN << IF options.vrules \in {"ALL", "FRAME"} THEN self._vertical_char ELSE " " >>
                ELSE <<>>
        lines(i) == PadLines(Split(wrapped[i], "\n"), row_height, self._valign[self._field_names[i]])
        perField == [i \in 1..n |->
                       IF i \in shown
                       THEN << Rep(" ", pw.lpad) \o
                               _justify(lines(i)[y], widths[i], self._align[self._field_names[i]]) \o
                               Rep(" ", pw.rpad) >> \o
                            (IF options.border
                             THEN << IF options.vrules = "ALL" THEN self._vertical_char ELSE " " >>
                             ELSE <<>>)
                       ELSE <<>>]
    IN FrameEnd(left \o Flatten(perField), options)

(* the row of wrapped cells as a string; reads self._hrule *)
StackRow(self, wrapped, widths, options, n, row_height) ==
    IF row_height = 0 /\ options.border /\ options.hrules = "ALL"
    THEN [raised |-> "IndexError", ret |-> ""]
    ELSE [raised |-> "",
          ret |-> Join("\n", [y \in 1..row_height |->
                     Join("", RuleBelow(RowBits(self, wrapped, widths, options, n, row_height, y),
                                        y = row_height /\ options.border /\ options.hrules = "ALL",
                                        self._hrule))])]

(* reads self._hrule, self._valign, self._align and self.vertical_char *)
_stringify_row(self, row, widths, options) ==
    LET n == Min2(Min2(Len(row), Len(self._field_names)), Len(widths))
        shown == ShownIndexes(self, options, n)
    IN IF \E i \in 1..n : WrapRaises(row[i], widths[i])
       THEN [raised |-> "ValueError", ret |-> ""]
       ELSE IF \E i \in 1..n : self._field_names[i] \notin DOMAIN self._valign
       THEN [raised |-> "KeyError", ret |-> ""]
       ELSE IF \E i \in shown : self._field_names[i] \notin DOMAIN self._align
       THEN [raised |-> "KeyError", ret |-> ""]
       ELSE StackRow(self, WrapRow(row, widths, n), widths, options, n,
                     RowHeight(WrapRow(row, widths, n)))


(* _prepare_lines returns the lines of the table, the exception raised,   *)
(* and the object afterwards: self._widths and self._hrule are assigned    *)
(* on the way.  It is written as the stages of the method, last first.     *)

(* the lines in order, given what _stringify_title, _stringify_header and  *)
(* _stringify_row returned *)
Assemble(self, options, title, hd, rs) ==
    LET header == IF options.header THEN Split(hd.ret, "\n")
                  ELSE IF options.border /\ options.hrules \in {"ALL", "FRAME"}
                  THEN << self._hrule >> ELSE <<>>
        bottom == IF options.border /\ options.hrules = "FRAME" THEN << self._hrule >> ELSE <<>>
    IN IF options.header /\ hd.raised # ""
       THEN [self |-> self, raised |-> hd.raised, lines |-> <<>>]
       ELSE IF \E i \in 1..Len(rs) : rs[i].raised # ""
       THEN [self |-> self,
             raised |-> rs[CHOOSE i \in 1..Len(rs) :
                              rs[i].raised # "" /\ \A j \in 1..(i - 1) : rs[j].raised = ""].raised,
             lines |-> <<>>]
       ELSE [self |-> self, raised |-> "",
             lines |-> title \o header \o [i \in 1..Len(rs) |-> rs[i].ret] \o bottom]

(* "Add title", "Add header or top of border", "Add rows", "Add bottom" *)
AddLines(self, options, formatted_rows, widths) ==
    Assemble(self, options,
             IF options.title # None
             THEN << _stringify_title(self, Val(options.title), widths, options) >> ELSE <<>>,
             _stringify_header(self, options),
             [i \in 1..Len(formatted_rows) |->
                 _stringify_row(self, formatted_rows[i], widths, options)])

(* self._widths = widths (in _compute_widths);                             *)
(* self._hrule = self._stringify_hrule(widths, options)                    *)
SetScratch(self, options, formatted_rows, widths) ==
    AddLines([self EXCEPT !._widths = widths,
                          !._hrule = _stringify_hrule(self, widths, options)],
             options, formatted_rows, widths)

(* widths = self._compute_widths(formatted_rows, options) *)
WithRows(self, options, formatted_rows) ==
    SetScratch(self, options, formatted_rows, _compute_widths(self, formatted_rows, options))

(* rows = self._get_rows(options); formatted_rows = self._format_rows(rows, options) *)
GotRows(self, options, gr) ==
    IF gr.raised # ""
    THEN [self |-> [self EXCEPT !._rows = gr._rows], raised |-> gr.raised, lines |-> <<>>]
    ELSE WithRows([self EXCEPT !._rows = gr._rows], options,
                  _format_rows([self EXCEPT !._rows = gr._rows], gr.rows))

(* the early return for an empty table taken only when print_empty is off *)
IgnoresBorder(self, go) ==
    IF go.raised # ""
    THEN [self |-> self, raised |-> go.raised, lines |-> <<>>]
    ELSE IF rowcount(self) = 0 /\ ~go.options.print_empty
    THEN [self |-> self, raised |-> "", lines |-> <<>>]
    ELSE GotRows(self, go.options, _get_rows(self, go.options))

(* options = self._get_options(kwargs), and the early return for an empty table *)
GotOptions(self, go) ==
    IF go.raised # ""
    THEN [self |-> self, raised |-> go.raised, lines |-> <<>>]
    ELSE IF rowcount(self) = 0 /\ (~go.options.print_empty \/ ~go.options.border)
    THEN [self |-> self, raised |-> "", lines |-> <<>>]
    ELSE GotRows(self, go.options, _get_rows(self, go.options))

_prepare_lines(self, kwargs) == GotOptions(self, _get_options(self, kwargs))

(* "\n".join(lines) *)
Joined(r) == [self |-> r.self, raised |-> r.raised, ret |-> Join("\n", r.lines)]

get_string(self, kwargs) == Joined(_prepare_lines(self, kwargs))

(* kwargs with the entries of forced set over it *)
Override(kwargs, forced) ==
    [k \in DOMAIN kwargs \cup DOMAIN forced |-> IF k \in DOMAIN forced THEN forced[k] ELSE kwargs[k]]

(* text.replace(old, new) for a one-character old *)
RECURSIVE Replace(_, _, _)
Replace(text, old, new) ==
    IF text = "" THEN ""
    ELSE (IF SubSeq(text, 1, 1) = old THEN new ELSE SubSeq(text, 1, 1)) \o Replace(Tail(text), old, new)

(* get_md_string assigning the Markdown style to the table instead of    *)
(* passing it as kwargs                                                    *)
MdStyleAssigned(self, kwargs) ==
    Joined(_prepare_lines([self EXCEPT !._title = None, !._header = TRUE, !._border = TRUE,
                                       !._junction_char = "|", !._hrules = "HEADER"], kwargs))

get_md_string(self, kwargs) ==
    Joined(_prepare_lines(self, Override(kwargs,
               [title |-> None, header |-> TRUE, border |-> TRUE,
                junction_char |-> "|", hrules |-> "HEADER"])))

(* if len(lines) >= 3: lines[2] = lines[2].replace('-', '=') *)
RstRule(r) ==
    IF Len(r.lines) >= 3
    THEN [r EXCEPT !.lines = [r.lines EXCEPT ![3] = Replace(r.lines[3], "-", "=")]] ELSE r

get_rst_string(self, kwargs) ==
    Joined(RstRule(_prepare_lines(self, Override(kwargs,
               [title |-> None, header |-> TRUE, border |-> TRUE, hrules |-> "ALL"]))))

(* the loop of paginate from the current kwargs["start"], for page_length >= 1: *)
(* PageDone is the body of the loop after the page r = self.get_string of kw       *)
RECURSIVE PaginateFrom(_, _, _, _, _)
PageDone(r, page_length, kw, true_end, pages) ==
    IF r.raised # "" THEN [self |-> r.self, raised |-> r.raised, ret |-> ""]
    ELSE IF Val(kw.end) = true_end
    THEN [self |-> r.self, raised |-> "", ret |-> Join("\f", Append(pages, r.ret))]
    ELSE PaginateFrom(r.self, page_length,
                      Override(kw, [start |-> kw.start + page_length]),
                      true_end, Append(pages, r.ret))

PageOf(self, page_length, kw, true_end, pages) ==
    PageDone(get_string(self, kw), page_length, kw, true_end, pages)

PaginateFrom(self, page_length, kwargs, true_end, pages) ==
    PageOf(self, page_length,
           Override(kwargs, [end |-> Some(Min2(kwargs.start + page_length, true_end))]),
           true_end, pages)

(* paginate that returns after its first page *)
StopsAfterFirstPage(self, page_length, kwargs) ==
    get_string(self, Override(kwargs, [start |-> 0,
                                       end |-> Some(Min2(page_length, rowcount(self)))]))

(* paginate(page_length, **kwargs) for page_length >= 1 and an end that is not None *)
paginate(self, page_length, kwargs) ==
    LET kw == IF "start" \in DOMAIN kwargs THEN kwargs ELSE Override(kwargs, [start |-> 0])
        true_end == IF "end" \in DOMAIN kwargs THEN Val(kwargs.end) ELSE rowcount(self)
    IN PaginateFrom(self, page_length, kw, true_end, <<>>)


----------------------------------------------------------------------------
(* HTML STRING METHODS                                                     *)

(* html.escape(text) *)
RECURSIVE html_escape(_)
html_escape(text) ==
    IF text = "" THEN ""
    ELSE LET c == SubSeq(text, 1, 1)
         IN (CASE c = "&" -> "&amp;"
               [] c = "<" -> "&lt;"
               [] c = ">" -> "&gt;"
               [] c = "\"" -> "&quot;"
               [] c = "'" -> "&#x27;"
               [] OTHER -> c) \o html_escape(Tail(text))

(* html.escape(text).replace("\n", linebreak) *)
HtmlText(text, options) ==
    Replace(html_escape(text), "\n", IF options.xhtml THEN "<br/>" ELSE "<br>")

(* the <table ...> tag; attributes is a list of name/value pairs *)
OpenTag(frame, options) ==
    "<table" \o frame \o
    Join("", [i \in 1..Len(options.attributes) |->
                " " \o options.attributes[i][1] \o "=\"" \o options.attributes[i][2] \o "\""]) \o
    ">"

TitleRows(self, options, indent) ==
    IF HasTitle(options)
    THEN LET cols == IF options.fields # None /\ Val(options.fields) # <<>>
                     THEN Len(Val(options.fields)) ELSE Len(self._field_names)
         IN << "    <tr>",
               indent \o "<td colspan=" \o IntToStr(cols) \o ">" \o Val(options.title) \o "</td>",
               "    </tr>" >>
    ELSE <<>>

(* the lines of one cell for each shown field among the first n *)
ShownCells(self, options, n, Line(_)) ==
    Flatten([i \in 1..n |-> IF i \in ShownIndexes(self, options, n) THEN << Line(i) >> ELSE <<>>])

_get_simple_html_string(self, options) ==
    LET gr == _get_rows(self, options)
        formatted_rows == _format_rows(self, gr.rows)
        Th(i) == "            <th>" \o HtmlText(self._field_names[i], options) \o "</th>"
        headers == IF options.header
                   THEN << "    <thead>", "        <tr>" >> \o
                        ShownCells(self, options, Len(self._field_names), Th) \o
                        << "        </tr>", "    </thead>" >>
                   ELSE <<>>
        RowLines(row) ==
            LET Td(i) == "            <td>" \o HtmlText(row[i], options) \o "</td>"
            IN << "        <tr>" >> \o ShownCells(self, options, Len(row), Td) \o << "        </tr>" >>
        data == Flatten([i \in 1..Len(formatted_rows) |-> RowLines(formatted_rows[i])])
    IN IF gr.raised # ""
       THEN [self |-> [self EXCEPT !._rows = gr._rows], raised |-> gr.raised, ret |-> ""]
       ELSE [self |-> [self EXCEPT !._rows = gr._rows], raised |-> "",
             ret |-> Join("\n", << OpenTag("", options) >> \o TitleRows(self, options, "        ") \o
                                headers \o << "    <tbody>" >> \o data \o
                                << "    </tbody>", "</table>" >>)]

Frame(options) ==
    IF ~options.border THEN ""
    ELSE IF options.hrules = "ALL" /\ options.vrules = "ALL" THEN " frame=\"box\" rules=\"all\""
    ELSE IF options.hrules = "FRAME" /\ options.vrules = "FRAME" THEN " frame=\"box\""
    ELSE IF options.hrules = "FRAME" /\ options.vrules = "ALL" THEN " frame=\"box\" rules=\"cols\""
    ELSE IF options.hrules = "FRAME" THEN " frame=\"hsides\""
    ELSE IF options.hrules = "ALL" THEN " frame=\"hsides\" rules=\"rows\""
    ELSE IF options.vrules = "FRAME" THEN " frame=\"vsides\""
    ELSE IF options.vrules = "ALL" THEN " frame=\"vsides\" rules=\"cols\""
    ELSE ""

AlignName(align) == IF align = "l" THEN "left" ELSE IF align = "r" THEN "right" ELSE "center"

ValignName(valign) ==
    IF valign = Some("t") THEN "top" ELSE IF valign = Some("m") THEN "middle" ELSE "bottom"

_get_formatted_html_string(self, options) ==
    LET pw == _get_padding_widths(options)
        gr == _get_rows(self, options)
        formatted_rows == _format_rows(self, gr.rows)
        pad == "padding-left: " \o IntToStr(pw.lpad) \o "em; padding-right: " \o IntToStr(pw.rpad) \o "em; "
        Th(i) == "            <th style=\"" \o pad \o "text-align: center\">" \o
                 HtmlText(self._field_names[i], options) \o "</th>"
        headers == IF options.header
                   THEN << "    <thead>", "        <tr>" >> \o
                        ShownCells(self, options, Len(self._field_names), Th) \o
                        << "        </tr>", "    </thead>" >>
                   ELSE <<>>
        RowLines(row) ==
            LET Td(i) == "            <td style=\"" \o pad \o
                         "text-align: " \o AlignName(self._align[self._field_names[i]]) \o
                         "; vertical-align: " \o ValignName(self._valign[self._field_names[i]]) \o
                         "\">" \o HtmlText(row[i], options) \o "</td>"
            IN << "        <tr>" >> \o ShownCells(self, options, Len(row), Td) \o << "        </tr>" >>
        data == Flatten([i \in 1..Len(formatted_rows) |-> RowLines(formatted_rows[i])])
        s0 == [self EXCEPT !._rows = gr._rows]
    IN IF gr.raised # ""
       THEN [self |-> s0, raised |-> gr.raised, ret |-> ""]
       ELSE IF \E i \in 1..Len(self._field_names) :
                   \/ self._field_names[i] \notin DOMAIN self._align
                   \/ self._field_names[i] \notin DOMAIN self._valign
                   \/ self._valign[self._field_names[i]] = None
       THEN [self |-> s0, raised |-> "KeyError", ret |-> ""]
       ELSE [self |-> s0, raised |-> "",
             ret |-> Join("\n", << OpenTag(Frame(options), options) >> \o
                                TitleRows(self, options, "            ") \o
                                headers \o << "    <tbody>" >> \o data \o
                                << "    </tbody>", "</table>" >>)]

get_html_string(self, kwargs) ==
    LET go == _get_options(self, kwargs)
    IN IF go.raised # "" THEN [self |-> self, raised |-> go.raised, ret |-> ""]
       ELSE IF go.options.format THEN _get_formatted_html_string(self, go.options)
       ELSE _get_simple_html_string(self, go.options)

----------------------------------------------------------------------------
(* SLICING: x[index]                                                       *)

(* an index: an int, slice(start, stop) with None for an omitted bound, or *)
(* a value of another type                                                 *)
IntIndex(i) == [kind |-> "int", i |-> i, start |-> None, stop |-> None]

SliceIndex(start, stop) == [kind |-> "slice", i |-> 0, start |-> start, stop |-> stop]

StrIndex == [kind |-> "str", i |-> 0, start |-> None, stop |-> None]

(* a bound of a slice over a list of n elements, as list slicing reads it *)
Clamp(i, n) == IF i < 0 THEN Max2(i + n, 0) ELSE Min2(i, n)

(* rows[start:stop] *)
ListSlice(rows, start, stop) ==
    SubSeq(rows,
           (IF start = None THEN 0 ELSE Clamp(Val(start), Len(rows))) + 1,
           IF stop = None THEN Len(rows) ELSE Clamp(Val(stop), Len(rows)))

(* the options whose value is a dict *)
DictOptions ==
    {"align", "valign", "max_width", "min_width", "int_format", "float_format", "attributes"}

(* for attr in self._options: setattr(new, "_" + attr, getattr(self, "_" + attr)) *)
CopyOptions(self, fresh) ==
    [a \in DOMAIN fresh |-> IF a \in {"_" \o option : option \in _options} THEN self[a] ELSE fresh[a]]

(* new.add_row(row) for the rows selected; add_row appends list(row) *)
RECURSIVE AddSelected(_, _)
AddSelected(table, rows) ==
    IF rows = <<>> THEN [raised |-> "", new |-> table]
    ELSE IF add_row(table, Head(rows)).raised # ""
    THEN [raised |-> add_row(table, Head(rows)).raised, new |-> table]
    ELSE AddSelected(add_row(table, Head(rows)).self, Tail(rows))

(* the rest of __getitem__ once new.field_names = self.field_names is done *)
GotFieldNames(self, index, r) ==
    IF r.raised # "" THEN [raised |-> r.raised, new |-> r.self]
    ELSE IF index.kind = "slice"
    THEN AddSelected(CopyOptions(self, r.self), ListSlice(self._rows, index.start, index.stop))
    ELSE IF index.kind = "int"
    THEN IF index.i >= Len(self._rows) \/ index.i < 0 - Len(self._rows)
         THEN [raised |-> "IndexError", new |-> r.self]
         ELSE AddSelected(CopyOptions(self, r.self),
                          << self._rows[IF index.i < 0 THEN index.i + Len(self._rows) + 1
                                        ELSE index.i + 1] >>)
    ELSE [raised |-> PTE, new |-> r.self]

(* x[index]: the exception raised, or the table returned *)
__getitem__(self, index) ==
    GotFieldNames(self, index, field_names_setter(__init__, self._field_names))

----------------------------------------------------------------------------
(* TABLES FROM HTML: factory.from_html                                     *)
(* html.parser.HTMLParser.feed calls handle_starttag, handle_endtag and    *)
(* handle_data of the TableHandler for the tags and the text between them. *)

(* a handler after TableHandler.__init__; raised is the exception that     *)
(* ended the feed, "" when none                                            *)
TableHandler ==
    [tables |-> <<>>, last_row |-> <<>>, rows |-> <<>>, active |-> None, last_content |-> "",
     is_last_row_header |-> FALSE, colspan |-> 0, raised |-> ""]

IsWhite(c) == c \in {" ", "\n", "\t"}

(* text.strip() *)
str_strip(text) ==
    LET kept == {i \in 1..Len(text) : ~IsWhite(SubSeq(text, i, i))}
    IN IF kept = {} THEN ""
       ELSE SubSeq(text, CHOOSE i \in kept : \A j \in kept : i <= j,
                         CHOOSE i \in kept : \A j \in kept : j <= i)

(* rawdata.find(c, i) for a character c, 0 when there is none *)
RECURSIVE FindFrom(_, _, _)
FindFrom(rawdata, c, i) ==
    IF i > Len(rawdata) THEN 0
    ELSE IF SubSeq(rawdata, i, i) = c THEN i
    ELSE FindFrom(rawdata, c, i + 1)

(* the character references that html.escape writes, replaced in one pass *)
CharRefs ==
    << << "&amp;", "&" >>, << "&lt;", "<" >>, << "&gt;", ">" >>, << "&quot;", "\"" >>,
       << "&#x27;", "'" >> >>

RECURSIVE unescape(_)
unescape(data) ==
    IF data = "" THEN ""
    ELSE IF \E r \in 1..Len(CharRefs) :
               Len(data) >= Len(CharRefs[r][1]) /\ SubSeq(data, 1, Len(CharRefs[r][1])) = CharRefs[r][1]
    THEN LET r == CHOOSE r \in 1..Len(CharRefs) :
                     /\ Len(data) >= Len(CharRefs[r][1])
                     /\ SubSeq(data, 1, Len(CharRefs[r][1])) = CharRefs[r][1]
         IN CharRefs[r][2] \o unescape(SubSeq(data, Len(CharRefs[r][1]) + 1, Len(data)))
    ELSE SubSeq(data, 1, 1) \o unescape(Tail(data))

(* the value of an attribute without its quotes *)
Unquoted(value) ==
    IF Len(value) >= 2 /\ SubSeq(value, 1, 1) = "\"" /\ SubSeq(value, Len(value), Len(value)) = "\""
    THEN SubSeq(value, 2, Len(value) - 1)
    ELSE value

(* the name and the attributes of the tag written as <inner> *)
TagName(inner) == str_lower(Split(inner, " ")[1])

TagAttrs(inner) ==
    LET parts == Split(inner, " ")
    IN [p \in 1..(Len(parts) - 1) |->
           LET kv == Split(parts[p + 1], "=")
           IN << str_lower(kv[1]), IF Len(kv) >= 2 THEN Unquoted(kv[2]) ELSE "" >>]

(* for (key, value) in attrs: if key == "colspan": self.colspan = int(value) *)
RECURSIVE SetColspan(_, _)
SetColspan(self, attrs) ==
    IF attrs = <<>> \/ self.raised # "" THEN self
    ELSE IF Head(attrs)[1] # "colspan" THEN SetColspan(self, Tail(attrs))
    ELSE IF Head(attrs)[2] = "" \/ \E i \in 1..Len(Head(attrs)[2]) : ~IsDigit(SubSeq(Head(attrs)[2], i, i))
    THEN [self EXCEPT !.raised = "ValueError"]
    ELSE SetColspan([self EXCEPT !.colspan = StrToNat(Head(attrs)[2])], Tail(attrs))

handle_starttag(self, tag, attrs) ==
    SetColspan([self EXCEPT !.active = Some(tag),
                            !.is_last_row_header = IF tag = "th" THEN TRUE ELSE @], attrs)

(* make_fields_unique: the loops over i and over j > i *)
RECURSIVE UniqueFrom(_, _, _)
UniqueFrom(fields, i, j) ==
    IF i > Len(fields) THEN fields
    ELSE IF j > Len(fields) THEN UniqueFrom(fields, i + 1, i + 2)
    ELSE UniqueFrom(IF fields[i] = fields[j] THEN [fields EXCEPT ![j] = @ \o "'"] ELSE fields,
                    i, j + 1)

make_fields_unique(fields) == UniqueFrom(fields, 1, 2)

(* generate_table: the loop over the rows, table being the outcome so far *)
RECURSIVE TableFrom(_, _)
TableFrom(r, rows) ==
    IF rows = <<>> \/ r.raised # "" THEN r
    ELSE TableFrom(IF Head(rows)[2]
                   THEN field_names_setter(r.self, make_fields_unique(Head(rows)[1]))
                   ELSE add_row(r.self, [i \in 1..Len(Head(rows)[1]) |-> StrCell(Head(rows)[1][i])]),
                   Tail(rows))

generate_table(rows) == TableFrom(Ok(__init__), rows)

(* the part of handle_endtag for th and td *)
EndCell(self, tag) ==
    IF tag \in {"th", "td"}
    THEN [self EXCEPT !.last_row = @ \o << str_strip(self.last_content) >> \o
                                       [i \in 1..(self.colspan - 1) |-> ""],
                      !.colspan = 0]
    ELSE self

(* the part of handle_endtag for tr *)
EndRow(self, tag) ==
    IF tag = "tr"
    THEN [self EXCEPT !.rows = Append(@, << self.last_row, self.is_last_row_header >>),
                      !.last_row = <<>>,
                      !.is_last_row_header = FALSE]
    ELSE self

(* the part of handle_endtag for table, table being what generate_table  *)
(* returned or raised, and its last two assignments                        *)
Generated(self, tag, table) ==
    IF tag = "table" /\ table.raised # ""
    THEN [self EXCEPT !.raised = table.raised]
    ELSE [self EXCEPT !.tables = IF tag = "table" THEN Append(@, table.self) ELSE @,
                      !.rows = IF tag = "table" THEN <<>> ELSE @,
                      !.last_content = " ",
                      !.active = None]

EndTable(self, tag) ==
    Generated(self, tag, IF tag = "table" THEN generate_table(self.rows) ELSE Ok(__init__))

handle_endtag(self, tag) == EndTable(EndRow(EndCell(self, tag), tag), tag)

handle_data(self, data) == [self EXCEPT !.last_content = @ \o data]

(* handle_startendtag after its handle_starttag: handle_endtag unless the *)
(* start raised                                                            *)
Started(started, tag) ==
    IF started.raised # "" THEN started ELSE handle_endtag(started, tag)

(* the handler after the tag <inner>: an end tag, a tag closed at once as  *)
(* in <br/>, or a start tag                                                *)
HandleTag(self, inner) ==
    IF inner # "" /\ SubSeq(inner, 1, 1) = "/"
    THEN handle_endtag(self, str_lower(SubSeq(inner, 2, Len(inner))))
    ELSE IF inner # "" /\ SubSeq(inner, Len(inner), Len(inner)) = "/"
    THEN Started(handle_starttag(self, TagName(SubSeq(inner, 1, Len(inner) - 1)),
                                 TagAttrs(SubSeq(inner, 1, Len(inner) - 1))),
                 TagName(SubSeq(inner, 1, Len(inner) - 1)))
    ELSE handle_starttag(self, TagName(inner), TagAttrs(inner))

(* the text from i to the end is kept back until more text is fed: among   *)
(* its last 34 characters the last & has no whitespace or ; after it       *)
KeptBack(rawdata, i) ==
    \E p \in Max2(i, Len(rawdata) - 33)..Len(rawdata) :
       /\ SubSeq(rawdata, p, p) = "&"
       /\ \A q \in (p + 1)..Len(rawdata) :
             SubSeq(rawdata, q, q) # "&" /\ SubSeq(rawdata, q, q) # ";" /\ ~IsWhite(SubSeq(rawdata, q, q))

(* HTMLParser.feed from position i of rawdata, for the tags that           *)
(* get_html_string writes: text up to the next < is data with its          *)
(* character references replaced                                           *)
RECURSIVE Feed(_, _, _)
(* the feed from position i where the next > or < is at position j, 0     *)
(* when there is none                                                      *)
FeedTo(self, rawdata, i, j) ==
    IF SubSeq(rawdata, i, i) = "<"
    THEN IF j = 0 THEN self
         ELSE Feed(HandleTag(self, SubSeq(rawdata, i + 1, j - 1)), rawdata, j + 1)
    ELSE IF j = 0
    THEN IF KeptBack(rawdata, i) THEN self
         ELSE handle_data(self, unescape(SubSeq(rawdata, i, Len(rawdata))))
    ELSE Feed(handle_data(self, unescape(SubSeq(rawdata, i, j - 1))), rawdata, j)

Feed(self, rawdata, i) ==
    IF i > Len(rawdata) \/ self.raised # "" THEN self
    ELSE FeedTo(self, rawdata, i,
                FindFrom(rawdata, IF SubSeq(rawdata, i, i) = "<" THEN ">" ELSE "<", i))

(* from_html(html_code): the exception raised and the tables returned *)
Parsed(parser) ==
    [raised |-> parser.raised, ret |-> IF parser.raised = "" THEN parser.tables ELSE <<>>]

from_html(html_code) == Parsed(Feed(TableHandler, html_code, 1))

----------------------------------------------------------------------------
(* THE TABLE AS A STATE MACHINE                                            *)
(*   self     the PrettyTable object                                       *)
(*   last     the last call made on it: its name, its keyword arguments,   *)
(*            the exception it raised ("" when none), what it returned,    *)
(*            and clean: no call that changes the table has raised so far  *)
(*   threads  the render calls in progress on other threads                *)
(*   new      the table returned by x[index], None before it is taken      *)
(*   aliased  the attributes of x and new that are one and the same dict   *)
(*            object, so that an item assigned through one table is seen   *)
(*            through the other                                            *)

VARIABLES self, last, threads, new, aliased

vars == <<self, last, threads, new, aliased>>

MaxCols == 2

MaxRows == 2

NoKwargs == <<>>

NoCall == [op |-> "", kwargs |-> NoKwargs, raised |-> "", ret |-> "", clean |-> TRUE]

Call(op, kwargs, r, clean) ==
    [op |-> op, kwargs |-> kwargs, raised |-> r.raised, ret |-> r.ret, clean |-> clean]

(* no render call is in progress on another thread *)
Idle == threads = <<>>

(* the call of the setter or data method op ends with outcome r *)
Changes(op, r) ==
    /\ self' = r.self
    /\ last' = Call(op, NoKwargs, r, last.clean /\ r.raised = "")
    /\ UNCHANGED <<threads, new, aliased>>

(* the render call of op with kwargs ends with outcome r *)
Returns(op, kwargs, r) ==
    /\ self' = r.self
    /\ last' = Call(op, kwargs, r, last.clean)
    /\ UNCHANGED <<threads, new, aliased>>

(* the values the calls are made with *)
Names == {"a", "b"}

Cells == {StrCell("x")}

NameLists == UNION {[1..n -> Names] : n \in 1..MaxCols}

RowLists == UNION {[1..n -> Cells] : n \in 1..MaxCols}

Columns == UNION {[1..n -> {StrCell("x")}] : n \in 0..MaxRows}

TableWidths == {None, Some(4)}

(* x = PrettyTable() *)
Init ==
    /\ self = __init__
    /\ last = NoCall
    /\ threads = <<>>
    /\ new = None
    /\ aliased = {}

(* x.field_names = val *)
SetFieldNames ==
    /\ Idle
    /\ \E val \in NameLists : Changes("field_names", field_names_setter(self, val))

(* x.add_row(row) *)
AddRow ==
    /\ Idle
    /\ Len(self._rows) < MaxRows
    /\ \E row \in RowLists : Changes("add_row", add_row(self, row))

(* x.add_column(fieldname, column) *)
AddColumn ==
    /\ Idle
    /\ Len(self._field_names) < MaxCols
    /\ \E fieldname \in Names, column \in Columns :
           Changes("add_column", add_column(self, fieldname, column, "c", Some("t")))

(* x.del_row(row_index) *)
DelRow ==
    /\ Idle
    /\ \E row_index \in (0 - 1)..MaxRows : Changes("del_row", del_row(self, row_index))

(* x.clear_rows() *)
ClearRows ==
    /\ Idle
    /\ Changes("clear_rows", clear_rows(self))

(* x.clear() *)
Clear ==
    /\ Idle
    /\ Changes("clear", clear(self))

(* x.max_table_width = val *)
SetMaxTableWidth ==
    /\ Idle
    /\ \E val \in TableWidths :
           Changes("max_table_width", option_setter(self, "max_table_width", val))

(* x.get_string() *)
GetString ==
    /\ Idle
    /\ Returns("get_string", NoKwargs, get_string(self, NoKwargs))

Next ==
    \/ SetFieldNames
    \/ AddRow
    \/ AddColumn
    \/ DelRow
    \/ ClearRows
    \/ Clear
    \/ SetMaxTableWidth
    \/ GetString

Spec == Init /\ [][Next]_vars

----------------------------------------------------------------------------
(* PROPERTIES OF THE DATA METHODS                                          *)

(* C1: after any sequence of calls of the field_names setter, add_row,     *)
(* add_column, del_row, clear_rows and clear, every stored row has as many *)
(* values as the table has field names.                                    *)
C1_RowArity ==
    \A i \in 1..Len(self._rows) : Len(self._rows[i]) = Len(self._field_names)

(* C2: the field names are pairwise distinct, and a call that would make   *)
(* two columns share a name raises PrettyTableException and leaves the     *)
(* field names as they were.                                               *)
C2_DistinctFieldNames ==
    [][/\ Cardinality(SeqToSet(self._field_names')) = Len(self._field_names')
       /\ \A val \in NameLists :
             (Cardinality(SeqToSet(val)) # Len(val) /\ self' = field_names_setter(self, val).self)
                => self'._field_names = self._field_names
       /\ \A fieldname \in Names, column \in Columns :
             (/\ fieldname \in SeqToSet(self._field_names)
              /\ last'.op = "add_column"
              /\ self' = add_column(self, fieldname, column, "c", Some("t")).self)
                => last'.raised = PTE /\ self'._field_names = self._field_names]_vars

(* C3: on a table reached by calls that all completed without raising,     *)
(* get_string() with no overrides returns a string and does not raise.     *)
C3_RenderNeverRaises ==
    (last.op = "get_string" /\ last.kwargs = NoKwargs /\ last.clean) => last.raised = ""

----------------------------------------------------------------------------
(* THE RENDER CALLS ON A TABLE THAT IS NOT CHANGED MEANWHILE               *)

(* the tables rendered: x = PrettyTable(); x.field_names = the first n of  *)
(* a, b, c, ...; x.add_row(row) for some rows; then one attribute assigned *)
FieldNamesOf(n) == [i \in 1..n |-> SubSeq("abcdefgh", i, i)]

LongRow(n) == [i \in 1..n |-> IF i % 2 = 1 THEN StrCell("xxx") ELSE IntCell(10)]

ShortRow(n) == [i \in 1..n |-> IF i % 2 = 1 THEN StrCell("a a") ELSE IntCell(2)]

RowSeqs(n) ==
    IF n = 0 THEN {<<>>}
    ELSE {[i \in 1..k |-> IF i % 2 = 1 THEN LongRow(n) ELSE ShortRow(n)] : k \in 0..MaxRows}

RECURSIVE AddRows(_, _)
AddRows(table, rows) ==
    IF rows = <<>> THEN table ELSE AddRows(add_row(table, Head(rows)).self, Tail(rows))

(* x.<option> = val *)
Assign(table, option, val) ==
    IF option = "title" THEN title_setter(table, Val(val)) ELSE option_setter(table, option, val)

LongTitle == "A long title"

Settings ==
    {<<"title", Some(LongTitle)>>, <<"border", FALSE>>, <<"border", TRUE>>, <<"header", FALSE>>,
     <<"hrules", "NONE">>, <<"hrules", "ALL">>, <<"vrules", "NONE">>, <<"vrules", "FRAME">>,
     <<"max_table_width", Some(6)>>, <<"print_empty", FALSE>>, <<"sortby", Some("a")>>}

Built(n, rows, setting) ==
    Assign(AddRows(field_names_setter(__init__, FieldNamesOf(n)).self, rows),
           setting[1], setting[2]).self

(* the keyword arguments of the render calls; vrules = HEADER is rejected *)
StringKwargs ==
    {NoKwargs, [title |-> Some(LongTitle)], [border |-> FALSE], [header |-> FALSE],
     [hrules |-> "NONE"], [vrules |-> "NONE"], [max_table_width |-> Some(6)],
     [print_empty |-> FALSE], [print_empty |-> TRUE], [sortby |-> Some("a")],
     [vertical_char |-> "!"], [vrules |-> "HEADER"]}

OtherKwargs == {NoKwargs, [sortby |-> Some("a"), border |-> FALSE], [vrules |-> "HEADER"]}

InitRender ==
    /\ \E n \in 0..MaxCols : \E rows \in RowSeqs(n) : \E setting \in Settings :
          self = Built(n, rows, setting)
    /\ last = NoCall
    /\ threads = <<>>
    /\ new = None
    /\ aliased = {}

(* x.get_string with kwargs *)
RenderString ==
    /\ Idle
    /\ \E kwargs \in StringKwargs : Returns("get_string", kwargs, get_string(self, kwargs))

(* x.get_html_string with kwargs *)
RenderHtml ==
    /\ Idle
    /\ \E kwargs \in OtherKwargs :
          Returns("get_html_string", kwargs, get_html_string(self, kwargs))

(* x.get_md_string with kwargs *)
RenderMd ==
    /\ Idle
    /\ \E kwargs \in OtherKwargs : Returns("get_md_string", kwargs, get_md_string(self, kwargs))

(* x.get_rst_string with kwargs *)
RenderRst ==
    /\ Idle
    /\ \E kwargs \in OtherKwargs : Returns("get_rst_string", kwargs, get_rst_string(self, kwargs))

(* x.paginate with page_length 1 and kwargs *)
RenderPages ==
    /\ Idle
    /\ \E kwargs \in OtherKwargs : Returns("paginate", kwargs, paginate(self, 1, kwargs))

(* x.get_string with one of the other kwargs *)
RenderText ==
    /\ Idle
    /\ \E kwargs \in OtherKwargs : Returns("get_string", kwargs, get_string(self, kwargs))

(* get_string calls only *)
SpecString == InitRender /\ [][RenderString]_vars

NextRender ==
    \/ RenderText
    \/ RenderHtml
    \/ RenderMd
    \/ RenderRst
    \/ RenderPages

SpecRender == InitRender /\ [][NextRender]_vars

----------------------------------------------------------------------------
(* RENDER CALLS ON SEVERAL THREADS                                         *)
(* Each thread runs get_string with its own kwargs on the one table.  Its  *)
(* options, rows, widths and lines are local; self._widths and self._hrule *)
(* are attributes of the table that all threads write and read.  A thread  *)
(* can be preempted between any two of the steps below.                    *)

MaxThreads == 2

Threads == 1..MaxThreads

ThreadKwargs == {NoKwargs, [padding_width |-> 3], [fields |-> Some(<< "a" >>)]}

NotStarted ==
    [pc |-> "idle", kwargs |-> NoKwargs, options |-> <<>>, rows |-> <<>>, widths |-> <<>>,
     lines |-> <<>>, raised |-> "", ret |-> ""]

InitThreads ==
    /\ \E n \in 1..MaxCols : \E rows \in RowSeqs(n) : self = Built(n, rows, << "border", TRUE >>)
    /\ last = NoCall
    /\ threads = [t \in Threads |-> NotStarted]
    /\ new = None
    /\ aliased = {}

(* thread t goes on with its local state th *)
Goes(t, th) == threads' = [threads EXCEPT ![t] = th] /\ UNCHANGED <<new, aliased>>

(* get_string returns or raises on thread t *)
Done(th, raised, lines) ==
    [th EXCEPT !.pc = "done", !.raised = raised, !.lines = lines,
               !.ret = IF raised = "" THEN Join("\n", lines) ELSE ""]

(* rows = self._get_rows(options); formatted_rows = self._format_rows(rows, options) *)
EnteredRows(th, kwargs, options, gr) ==
    IF gr.raised # ""
    THEN Done([th EXCEPT !.kwargs = kwargs], gr.raised, <<>>)
    ELSE [th EXCEPT !.pc = "widths", !.kwargs = kwargs, !.options = options,
                    !.rows = _format_rows(self, gr.rows)]

(* options = self._get_options(kwargs), and the early return for an empty table *)
Entered(th, kwargs, go) ==
    IF go.raised # ""
    THEN Done([th EXCEPT !.kwargs = kwargs], go.raised, <<>>)
    ELSE IF rowcount(self) = 0 /\ (~go.options.print_empty \/ ~go.options.border)
    THEN Done([th EXCEPT !.kwargs = kwargs], "", <<>>)
    ELSE EnteredRows(th, kwargs, go.options, _get_rows(self, go.options))

(* thread t calls x.get_string with kwargs and runs up to the call of _compute_widths *)
Enter(t) ==
    /\ threads[t].pc = "idle"
    /\ \E kwargs \in ThreadKwargs : Goes(t, Entered(threads[t], kwargs, _get_options(self, kwargs)))
    /\ UNCHANGED <<self, last>>

Computed(t, widths) ==
    /\ self' = [self EXCEPT !._widths = widths]
    /\ Goes(t, [threads[t] EXCEPT !.pc = "hrule", !.widths = widths])

(* widths = self._compute_widths(formatted_rows, options), which assigns self._widths *)
ComputeWidths(t) ==
    /\ threads[t].pc = "widths"
    /\ Computed(t, _compute_widths(self, threads[t].rows, threads[t].options))
    /\ UNCHANGED last

(* self._hrule = self._stringify_hrule(widths, options) *)
SetHrule(t) ==
    /\ threads[t].pc = "hrule"
    /\ self' = [self EXCEPT !._hrule = _stringify_hrule(self, threads[t].widths, threads[t].options)]
    /\ Goes(t, [threads[t] EXCEPT !.pc = "header"])
    /\ UNCHANGED last

Headed(th, title, hd) ==
    IF th.options.header /\ hd.raised # ""
    THEN Done(th, hd.raised, <<>>)
    ELSE [th EXCEPT !.pc = "rows",
                    !.lines = title \o
                              (IF th.options.header THEN Split(hd.ret, "\n")
                               ELSE IF th.options.border /\ th.options.hrules \in {"ALL", "FRAME"}
                               THEN << self._hrule >> ELSE <<>>)]

(* "Add title" and "Add header or top of border": read self._hrule and self._widths *)
AddHeader(t) ==
    /\ threads[t].pc = "header"
    /\ Goes(t, Headed(threads[t],
                      IF threads[t].options.title # None
                      THEN << _stringify_title(self, Val(threads[t].options.title),
                                               threads[t].widths, threads[t].options) >>
                      ELSE <<>>,
                      _stringify_header(self, threads[t].options)))
    /\ UNCHANGED <<self, last>>

Stacked(th, rs) ==
    IF \E i \in 1..Len(rs) : rs[i].raised # ""
    THEN Done(th, rs[CHOOSE i \in 1..Len(rs) :
                        rs[i].raised # "" /\ \A j \in 1..(i - 1) : rs[j].raised = ""].raised, <<>>)
    ELSE Done(th, "", th.lines \o [i \in 1..Len(rs) |-> rs[i].ret] \o
                      (IF th.options.border /\ th.options.hrules = "FRAME"
                       THEN << self._hrule >> ELSE <<>>))

(* "Add rows" and "Add bottom of border": read self._hrule; then get_string returns *)
AddBody(t) ==
    /\ threads[t].pc = "rows"
    /\ Goes(t, Stacked(threads[t],
                       [i \in 1..Len(threads[t].rows) |->
                           _stringify_row(self, threads[t].rows[i],
                                          threads[t].widths, threads[t].options)]))
    /\ UNCHANGED <<self, last>>

NextThreads ==
    \E t \in Threads :
        \/ Enter(t)
        \/ ComputeWidths(t)
        \/ SetHrule(t)
        \/ AddHeader(t)
        \/ AddBody(t)

SpecThreads == InitThreads /\ [][NextThreads]_vars

SameOutcome(r1, r2) == r1.raised = r2.raised /\ r1.ret = r2.ret

(* C9: however two render calls on the same table interleave, each returns *)
(* the string (or raises the exception) it gives when run alone.           *)
C9_RendersDoNotInterfere ==
    \A t \in Threads :
        threads[t].pc = "done" =>
            SameOutcome(threads[t], get_string(self, threads[t].kwargs))

----------------------------------------------------------------------------
(* PROPERTIES OF THE RENDER CALLS                                          *)

(* the display width of every physical line of a rendered string *)
LineWidths(text) ==
    [i \in 1..Len(Split(text, "\n")) |-> _str_block_width(Split(text, "\n")[i])]

(* the options in force in the last call: its kwargs over the attributes *)
LastOptions == _get_options(self, last.kwargs).options

Rendered == last.op = "get_string" /\ last.raised = ""

(* C4: all physical lines of the string returned by get_string have the   *)
(* same display width.                                                     *)
C4_LinesSameWidth ==
    Rendered => \A i, j \in DOMAIN LineWidths(last.ret) :
                    LineWidths(last.ret)[i] = LineWidths(last.ret)[j]

(* what the vertical rules (or the blanks in their place) and the padding  *)
(* take of a line, plus one character for each column shown                *)
Overhead(options) ==
    LET n == Cardinality(ShownIndexes(self, options, Len(self._field_names)))
        pw == _get_padding_widths(options)
    IN n * (pw.lpad + pw.rpad) + (IF options.border THEN n + 1 ELSE 0) + n

(* C5: with max_table_width = W, W at least the overhead of the vertical  *)
(* rules and the padding, every physical line of get_string is at most W   *)
(* wide (stated for tables without a title).                               *)
C5_MaxTableWidthIsTheLaw ==
    (/\ Rendered
     /\ LastOptions.max_table_width # None
     /\ LastOptions.title = None
     /\ Val(LastOptions.max_table_width) >= Overhead(LastOptions))
       => \A i \in DOMAIN LineWidths(last.ret) :
             LineWidths(last.ret)[i] <= Val(LastOptions.max_table_width)

(* the attributes of the table that are settings: every option, and what   *)
(* the min_width property computes                                         *)
Persisted(table) == [option \in _options |-> Attr(table, option)]

(* C6: a render call with overrides leaves every setting of the table as   *)
(* it was, whether it returns or raises, and get_string() without          *)
(* overrides gives after the call what it gave before it.                  *)
C6_OverridesDoNotPersist ==
    [][/\ Persisted(self') = Persisted(self)
       /\ min_width(self') = min_width(self)
       /\ SameOutcome(get_string(self', NoKwargs), get_string(self, NoKwargs))]_vars

(* a call of get_md_string with overrides that differ from the attributes  *)
(* has returned                                                            *)
C6_Witness ==
    /\ last.op = "get_md_string"
    /\ last.raised = ""
    /\ "sortby" \in DOMAIN last.kwargs
    /\ last.kwargs.sortby # self._sortby
    /\ self._hrules # "HEADER"
    /\ Len(self._rows) > 1

(* C7: get_string(o = v) returns what get_string() returns on the table    *)
(* whose attribute o has been assigned v.                                  *)
C7_OverrideAsPersisted ==
    (last.op = "get_string" /\ Cardinality(DOMAIN last.kwargs) = 1)
       => \A o \in DOMAIN last.kwargs :
             Assign(self, o, last.kwargs[o]).raised = ""
                => SameOutcome(get_string(Assign(self, o, last.kwargs[o]).self, NoKwargs), last)

(* C8: no render call changes the stored rows or the field names.          *)
C8_RenderKeepsData ==
    [][self'._rows = self._rows /\ self'._field_names = self._field_names]_vars

(* a render call that sorts has returned the rows in another order than    *)
(* they are stored in                                                      *)
C8_Witness ==
    /\ last.op \in {"get_string", "get_html_string", "paginate"}
    /\ last.raised = ""
    /\ LastOptions.sortby = Some("a")
    /\ Len(self._rows) > 1
    /\ _get_rows(self, LastOptions).rows # self._rows

----------------------------------------------------------------------------
(* THE ROWS A RENDER SHOWS                                                 *)
(* Tables of two columns, a of integers and b of strings, where rows share *)
(* their value of a or of b; get_string is called with sortby, sort_key,   *)
(* reversesort, start, end and oldsortslice.                               *)

MaxSortRows == 3

SortRowValues ==
    {<< IntCell(1), StrCell("y") >>, << IntCell(1), StrCell("x") >>, << IntCell(2), StrCell("x") >>}

SortedTables ==
    {AddRows(field_names_setter(__init__, << "a", "b" >>).self, rows) :
        rows \in UNION {[1..n -> SortRowValues] : n \in 0..MaxSortRows}}

(* the keyword arguments; start = -1 is rejected *)
RowsKwargs ==
    {NoKwargs,
     [sortby |-> Some("a")], [sortby |-> Some("b")],
     [sortby |-> Some("a"), reversesort |-> TRUE],
     [sortby |-> Some("b"), reversesort |-> TRUE],
     [sortby |-> Some("a"), sort_key |-> "sortby_value"],
     [sortby |-> Some("a"), sort_key |-> "sortby_value", reversesort |-> TRUE],
     [start |-> 1], [end |-> Some(2)], [start |-> 1, end |-> Some(2)],
     [start |-> 2, end |-> Some(1)], [start |-> 0 - 1],
     [sortby |-> Some("a"), start |-> 1],
     [sortby |-> Some("b"), end |-> Some(2)],
     [sortby |-> Some("a"), start |-> 1, oldsortslice |-> TRUE],
     [sortby |-> Some("b"), end |-> Some(2), oldsortslice |-> TRUE]}

InitRows ==
    /\ self \in SortedTables
    /\ last = NoCall
    /\ threads = <<>>
    /\ new = None
    /\ aliased = {}

(* x.get_string with the kwargs that select and order rows *)
RenderRows ==
    /\ Idle
    /\ \E kwargs \in RowsKwargs : Returns("get_string", kwargs, get_string(self, kwargs))

(* x.paginate(page_length) *)
PageLengths == 1..(MaxSortRows + 1)

Paginate ==
    /\ Idle
    /\ \E page_length \in PageLengths :
          Returns("paginate", [page_length |-> page_length],
                  paginate(self, page_length, NoKwargs))

NextRows ==
    \/ RenderRows
    \/ Paginate

SpecRows == InitRows /\ [][NextRows]_vars

(* text.strip(" ") *)
RECURSIVE Strip(_)
Strip(text) ==
    IF text = "" THEN ""
    ELSE IF SubSeq(text, 1, 1) = " " THEN Strip(Tail(text))
    ELSE IF SubSeq(text, Len(text), Len(text)) = " " THEN Strip(SubSeq(text, 1, Len(text) - 1))
    ELSE text

(* the cell texts of one data line of a table drawn with all vertical rules *)
CellsOf(line) == [c \in 1..(Len(Split(line, "|")) - 2) |-> Strip(Split(line, "|")[c + 1])]

(* the data rows of a rendered string: the lines between the rule under    *)
(* the header and the bottom rule                                          *)
RenderedRows(text) ==
    [i \in 1..(Len(Split(text, "\n")) - 4) |-> CellsOf(Split(text, "\n")[i + 3])]

Reverse(s) == [i \in 1..Len(s) |-> s[Len(s) + 1 - i]]

(* the kwargs of the last call with reversesort = val *)
WithReversesort(val) == Override(last.kwargs, [reversesort |-> val])

(* C11: the data rows get_string shows with reversesort = True are the     *)
(* data rows it shows with reversesort = False, same sortby and sort_key   *)
(* and no start or end, in reverse order.                                  *)
C11_ReverseIsExactReverse ==
    (/\ Rendered
     /\ "sortby" \in DOMAIN last.kwargs
     /\ DOMAIN last.kwargs \cap {"start", "end"} = {})
       => RenderedRows(get_string(self, WithReversesort(TRUE)).ret)
             = Reverse(RenderedRows(get_string(self, WithReversesort(FALSE)).ret))

(* the position in the stable ascending order by column c of the i-th of   *)
(* rows: after the rows with a smaller value and the earlier rows with an  *)
(* equal value                                                             *)
StableRank(rows, c, i) ==
    1 + Cardinality({j \in 1..Len(rows) :
                        \/ ListLess(<< rows[j][c] >>, << rows[i][c] >>)
                        \/ (rows[j][c] = rows[i][c] /\ j < i)})

StablySorted(rows, c) ==
    [k \in 1..Len(rows) |-> rows[CHOOSE i \in 1..Len(rows) : StableRank(rows, c, i) = k]]

(* C12: with sortby set, the default sort_key and reversesort off, the     *)
(* data rows shown are the stored rows in ascending order of their value   *)
(* in the sortby column, rows with equal values in insertion order.        *)
C12_SortIsStable ==
    (Rendered /\ DOMAIN last.kwargs = {"sortby"})
       => RenderedRows(last.ret)
             = _format_rows(self, StablySorted(self._rows,
                                  Index(self._field_names, Val(last.kwargs.sortby))))

(* the elements of s at the indices i, counted from 0, with                *)
(* start <= i < end; end = None is no upper bound                          *)
InRange(s, start, end) ==
    [k \in 1..Cardinality({i \in 0..(Len(s) - 1) : start <= i /\ (end = None \/ i < Val(end))}) |->
        s[start + k]]

(* C13: without sortby, get_string with start = s and end = e shows        *)
(* exactly the stored rows at the indices s <= i < e, in insertion order.  *)
C13_RangeOfRows ==
    (Rendered /\ LastOptions.sortby = None)
       => RenderedRows(last.ret)
             = _format_rows(self, InRange(self._rows, LastOptions.start, LastOptions.end))

(* get_string(start=1, end=2) has shown the second of three rows *)
C13_Witness ==
    /\ Rendered
    /\ last.kwargs = [start |-> 1, end |-> Some(2)]
    /\ Len(self._rows) = 3
    /\ RenderedRows(last.ret) = _format_rows(self, << self._rows[2] >>)

(* the kwargs of the last call without its range *)
WholeRange == Override(last.kwargs, [start |-> 0, end |-> None])

(* the table with only the stored rows of the range of the last call *)
RangeOnly == [self EXCEPT !._rows = InRange(self._rows, LastOptions.start, LastOptions.end)]

(* C14: with sortby and start or end set, get_string shows, when           *)
(* oldsortslice is off, the rows start..end-1 of the sorted list of all    *)
(* rows, and when oldsortslice is on, the stored rows start..end-1 sorted. *)
C14_SortAndSlice ==
    (Rendered /\ LastOptions.sortby # None /\ DOMAIN last.kwargs \cap {"start", "end"} # {})
       => RenderedRows(last.ret)
             = IF LastOptions.oldsortslice
               THEN RenderedRows(get_string(RangeOnly, WholeRange).ret)
               ELSE InRange(RenderedRows(get_string(self, WholeRange).ret),
                            LastOptions.start, LastOptions.end)

(* get_string(sortby='b', end=2, oldsortslice=True) has shown other rows   *)
(* than get_string(sortby='b', end=2) shows                                *)
C14_Witness ==
    /\ Rendered
    /\ last.kwargs = [sortby |-> Some("b"), end |-> Some(2), oldsortslice |-> TRUE]
    /\ last.ret # get_string(self, [sortby |-> Some("b"), end |-> Some(2)]).ret

----------------------------------------------------------------------------
(* A TABLE AND A SLICE OF IT                                               *)
(* y = x[index] is taken once from a table x of one column, then x and y   *)
(* are changed by calls on either of them.  The table x is self, the table *)
(* y is Val(new).                                                          *)

Indexes ==
    {IntIndex(0), IntIndex(0 - 1), IntIndex(MaxRows), SliceIndex(None, None),
     SliceIndex(Some(0), Some(1)), SliceIndex(Some(0 - 1), None), StrIndex}

Targets == {"x", "y"}

(* the new entries assigned to the dict of an option: x.align[field] = "r"; *)
(* the properties align and max_width return the dict of the table itself  *)
Entries == {<< "align", "r" >>, << "max_width", 3 >>}

InitSlice ==
    /\ \E rows \in RowSeqs(1) : self = Built(1, rows, << "border", TRUE >>)
    /\ last = NoCall
    /\ threads = <<>>
    /\ new = None
    /\ aliased = {}

Sliced == new # None

The(t) == IF t = "x" THEN self ELSE Val(new)

(* y = x[index] ends with outcome r: y holds the dict objects of x *)
Taken(index, r) ==
    /\ new' = IF r.raised = "" THEN Some(r.new) ELSE None
    /\ aliased' = IF r.raised = "" THEN DictOptions ELSE {}
    /\ last' = [op |-> "__getitem__", kwargs |-> [index |-> index], raised |-> r.raised,
                ret |-> "", clean |-> last.clean]
    /\ UNCHANGED <<self, threads>>

(* table as seen after the other table became changed: the dicts in        *)
(* inplace that are aliased are the same objects in both                   *)
SeenThrough(table, changed, inplace) ==
    [a \in DOMAIN table |->
        IF \E option \in inplace \cap aliased : a = "_" \o option THEN changed[a] ELSE table[a]]

(* the call op on table t ends with outcome r; it assigned items of the    *)
(* dicts in inplace and bound the attributes in rebound to new dicts       *)
On(t, op, args, r, inplace, rebound) ==
    /\ self' = IF t = "x" THEN r.self ELSE SeenThrough(self, r.self, inplace)
    /\ new' = IF t = "x" THEN Some(SeenThrough(Val(new), r.self, inplace)) ELSE Some(r.self)
    /\ aliased' = aliased \ rebound
    /\ last' = Call(op, args, r, last.clean)
    /\ UNCHANGED threads

(* y = x[index] *)
GetItem ==
    /\ Idle
    /\ ~Sliced
    /\ \E index \in Indexes : Taken(index, __getitem__(self, index))

(* t.align = val: without field names a new dict, else items assigned *)
AssignAlign ==
    /\ Idle
    /\ Sliced
    /\ \E t \in Targets, val \in {"l", "x"} :
          On(t, "align", [target |-> t, val |-> val], align_setter(The(t), Some(val)),
             IF The(t)._field_names = <<>> THEN {} ELSE {"align"},
             IF The(t)._field_names = <<>> THEN {"align"} ELSE {})

(* t.max_width = val: for None a new dict, else items assigned *)
AssignMaxWidth ==
    /\ Idle
    /\ Sliced
    /\ \E t \in Targets, val \in {None, Some(2)} :
          On(t, "max_width", [target |-> t, val |-> val], max_width_setter(The(t), val),
             IF val = None THEN {} ELSE {"max_width"},
             IF val = None THEN {"max_width"} ELSE {})

(* t.align[field] = val, and the same for the dict of another option *)
SetEntry ==
    /\ Idle
    /\ Sliced
    /\ \E t \in Targets, entry \in Entries : \E field \in SeqToSet(The(t)._field_names) :
          On(t, "setitem", [target |-> t, option |-> entry[1], field |-> field],
             Ok([The(t) EXCEPT !["_" \o entry[1]] = DictSet(@, field, entry[2])]),
             {entry[1]}, {})

(* t.add_row(row) *)
AddRowTo ==
    /\ Idle
    /\ Sliced
    /\ \E t \in Targets :
          /\ Len(The(t)._rows) < MaxRows
          /\ On(t, "add_row", [target |-> t],
                add_row(The(t), ShortRow(Len(The(t)._field_names))), {}, {})

(* t.del_row(0) *)
DelRowFrom ==
    /\ Idle
    /\ Sliced
    /\ \E t \in Targets : On(t, "del_row", [target |-> t], del_row(The(t), 0), {}, {})

(* t.border = val *)
AssignBorder ==
    /\ Idle
    /\ Sliced
    /\ \E t \in Targets, val \in {FALSE} :
          On(t, "border", [target |-> t, val |-> val], option_setter(The(t), "border", val), {}, {})

NextSlice ==
    \/ GetItem
    \/ AssignAlign
    \/ AssignMaxWidth
    \/ SetEntry
    \/ AddRowTo
    \/ DelRowFrom
    \/ AssignBorder

SpecSlice == InitSlice /\ [][NextSlice]_vars

(* the settings of a table and what it renders are the same in s and t *)
SameTable(s, t) ==
    /\ s._field_names = t._field_names
    /\ Persisted(s) = Persisted(t)
    /\ SameOutcome(get_string(s, NoKwargs), get_string(t, NoKwargs))

(* C15: x[index] returns a table with the field names of x and the rows    *)
(* selected, and after that no call on one of the two tables changes the   *)
(* settings or the rendered output of the other.                           *)
C15_SliceIsIndependent ==
    [][/\ (last'.op = "__getitem__" /\ last'.raised = "")
            => /\ Val(new')._field_names = self._field_names
               /\ Val(new')._rows = (IF last'.kwargs.index.kind = "slice"
                                     THEN ListSlice(self._rows, last'.kwargs.index.start,
                                                    last'.kwargs.index.stop)
                                     ELSE ListSlice(self._rows, Some(last'.kwargs.index.i),
                                                    IF last'.kwargs.index.i = 0 - 1 THEN None
                                                    ELSE Some(last'.kwargs.index.i + 1)))
       /\ (Sliced /\ last'.kwargs.target = "x") => SameTable(Val(new'), Val(new))
       /\ (Sliced /\ last'.kwargs.target = "y") => SameTable(self', self)]_vars

----------------------------------------------------------------------------
(* PAGES                                                                   *)

(* the positions of the form feeds in text, and the k-th of them *)
FormFeeds(text) == {i \in 1..Len(text) : SubSeq(text, i, i) = "\f"}

FormFeed(text, k) ==
    CHOOSE i \in FormFeeds(text) : Cardinality({j \in FormFeeds(text) : j < i}) = k - 1

(* text.split("\f") *)
PagesOf(text) ==
    [k \in 1..(Cardinality(FormFeeds(text)) + 1) |->
        SubSeq(text,
               IF k = 1 THEN 1 ELSE FormFeed(text, k - 1) + 1,
               IF k = Cardinality(FormFeeds(text)) + 1 THEN Len(text)
               ELSE FormFeed(text, k) - 1)]

(* the pages of the string the last call of paginate returned *)
Pages == PagesOf(last.ret)

Paginated == last.op = "paginate" /\ last.raised = ""

(* C16: paginate(page_length = p), p >= 1, on a table of n rows returns    *)
(* ceil(n / p) pages, one page when n = 0, joined by form feeds; page k is *)
(* get_string(start = k * p, end = min((k + 1) * p, n)); the data rows of  *)
(* the pages, in order, are the rows of the table, and no page holds more  *)
(* than p rows.                                                            *)
C16_Pages ==
    Paginated =>
       /\ Len(Pages) = (IF rowcount(self) = 0 THEN 1
                        ELSE (rowcount(self) + last.kwargs.page_length - 1)
                                \div last.kwargs.page_length)
       /\ \A k \in 0..(Len(Pages) - 1) :
             /\ Pages[k + 1] =
                   get_string(self, [start |-> k * last.kwargs.page_length,
                                     end |-> Some(Min2((k + 1) * last.kwargs.page_length,
                                                       rowcount(self)))]).ret
             /\ Len(RenderedRows(Pages[k + 1])) <= last.kwargs.page_length
       /\ Flatten([k \in 1..Len(Pages) |-> RenderedRows(Pages[k])])
             = _format_rows(self, self._rows)

(* paginate(2) has returned two pages for a table of three rows *)
C16_Witness ==
    /\ Paginated
    /\ last.kwargs.page_length = 2
    /\ rowcount(self) = 3
    /\ Len(Pages) = 2

----------------------------------------------------------------------------
(* THE CALLS THAT CHANGE THE DATA, WITH THEIR ARGUMENTS                    *)
(* The table has field names, rows and one per-column setting assigned;    *)
(* last.kwargs holds the arguments of the last call.                       *)

ColumnSettings == {"none", "align", "max_width"}

(* x.align = "l", or x.max_width = 3 and x.min_width = 2 *)
WithSetting(table, setting) ==
    CASE setting = "align" -> align_setter(table, Some("l")).self
      [] setting = "max_width" ->
            min_width_setter(max_width_setter(table, Some(3)).self, Some(2)).self
      [] OTHER -> table

(* the lists of names assigned: new names, the first names in reverse      *)
(* order, and one name repeated, which is rejected                         *)
NewNameLists ==
    UNION {{[i \in 1..n |-> SubSeq("pqrstuvw", i, i)],
            [i \in 1..n |-> FieldNamesOf(n)[n + 1 - i]],
            [i \in 1..n |-> "a"]} : n \in 1..MaxCols}

(* the first and the last row, and an index on either side of the rows *)
RowIndexes == {0 - (MaxRows + 1), 0 - 1, 0, MaxRows}

InitData ==
    /\ \E n \in 1..MaxCols : \E rows \in RowSeqs(n) : \E setting \in ColumnSettings :
          self = WithSetting(Built(n, rows, << "border", TRUE >>), setting)
    /\ last = NoCall
    /\ threads = <<>>
    /\ new = None
    /\ aliased = {}

(* the call op with args ends with outcome r *)
Called(op, args, r) ==
    /\ self' = r.self
    /\ last' = Call(op, args, r, last.clean /\ r.raised = "")
    /\ UNCHANGED <<threads, new, aliased>>

(* x.field_names = val *)
Rename ==
    /\ Idle
    /\ \E val \in NewNameLists : Called("field_names", [val |-> val], field_names_setter(self, val))

(* x.add_row(row) *)
AddRowOf ==
    /\ Idle
    /\ Len(self._rows) < MaxRows
    /\ \E row \in RowLists : Called("add_row", [row |-> row], add_row(self, row))

(* x.add_column(fieldname, column, align, valign) *)
AddColumnOf ==
    /\ Idle
    /\ Len(self._field_names) < MaxCols
    /\ \E fieldname \in Names, column \in Columns, align \in {"c", "x"},
          valign \in {Some("t"), Some("x")} :
          Called("add_column",
                 [fieldname |-> fieldname, column |-> column, align |-> align, valign |-> valign],
                 add_column(self, fieldname, column, align, valign))

(* x.del_row(row_index) *)
DelRowAt ==
    /\ Idle
    /\ \E row_index \in RowIndexes :
          Called("del_row", [row_index |-> row_index], del_row(self, row_index))

NextData ==
    \/ Rename
    \/ AddRowOf
    \/ AddColumnOf
    \/ DelRowAt

SpecData == InitData /\ [][NextData]_vars

(* the options that hold one value for each column *)
ColumnOptions == {"align", "valign", "int_format", "float_format", "max_width", "min_width"}

(* C17: after x.field_names = val with as many names as before, every      *)
(* per-column setting of the old k-th name is the setting of the new k-th  *)
(* name, and no setting is keyed by a name that is not a field name.       *)
C17_RenameKeepsSettings ==
    [][(/\ last'.op = "field_names"
        /\ last'.raised = ""
        /\ Len(self'._field_names) = Len(self._field_names))
          => \A option \in ColumnOptions :
                /\ \A k \in 1..Len(self._field_names) :
                      self._field_names[k] \in DOMAIN Attr(self, option)
                         => /\ self'._field_names[k] \in DOMAIN Attr(self', option)
                            /\ Attr(self', option)[self'._field_names[k]]
                                  = Attr(self, option)[self._field_names[k]]
                /\ DOMAIN Attr(self', option) \subseteq SeqToSet(self'._field_names)]_vars

(* C18: add_row(row) on a table with field names raises                   *)
(* PrettyTableException when len(row) is not the number of field names    *)
(* and then changes nothing; otherwise it appends row as the last row and  *)
(* changes nothing else.                                                   *)
C18_AddRow ==
    [][(last'.op = "add_row" /\ self._field_names # <<>>)
          => IF Len(last'.kwargs.row) # Len(self._field_names)
             THEN last'.raised = PTE /\ self' = self
             ELSE /\ last'.raised = ""
                  /\ self' = [self EXCEPT !._rows = Append(self._rows, last'.kwargs.row)]]_vars

(* add_row has rejected a row of two values for a table of one column     *)
(* that has rows                                                           *)
C18_Witness ==
    /\ last.op = "add_row"
    /\ last.raised = PTE
    /\ Len(last.kwargs.row) = 2
    /\ Len(self._field_names) = 1
    /\ self._rows # <<>>

(* C19: add_column raises PrettyTableException when the table has rows and *)
(* len(column) is not the number of rows, and when align or valign is      *)
(* invalid; when it raises, the field names, the rows and the per-column   *)
(* settings are unchanged.                                                 *)
C19_AddColumn ==
    [][last'.op = "add_column"
          => /\ (Len(self._rows) >= 1 /\ Len(last'.kwargs.column) # Len(self._rows))
                   => last'.raised = PTE
             /\ (\/ last'.kwargs.align \notin {"l", "c", "r"}
                 \/ last'.kwargs.valign \notin {Some("t"), Some("m"), Some("b"), None})
                   => last'.raised = PTE
             /\ last'.raised # ""
                   => /\ self'._field_names = self._field_names
                      /\ self'._rows = self._rows
                      /\ \A option \in ColumnOptions : Attr(self', option) = Attr(self, option)]_vars

(* add_column has rejected an invalid align for a column of the right      *)
(* length on a table that has rows                                         *)
C19_Witness ==
    /\ last.op = "add_column"
    /\ last.raised = PTE
    /\ last.kwargs.align = "x"
    /\ self._rows # <<>>
    /\ Len(last.kwargs.column) = Len(self._rows)

(* C20: del_row(i) on a table of n rows raises PrettyTableException and    *)
(* leaves the rows unchanged when i >= n or i < -n; otherwise it removes   *)
(* row i and the other rows keep their order.                              *)
C20_DelRow ==
    [][last'.op = "del_row"
          => IF \/ last'.kwargs.row_index >= Len(self._rows)
                \/ last'.kwargs.row_index < 0 - Len(self._rows)
             THEN last'.raised = PTE /\ self'._rows = self._rows
             ELSE /\ last'.raised = ""
                  /\ Len(self'._rows) = Len(self._rows) - 1
                  /\ self'._rows =
                        [k \in 1..(Len(self._rows) - 1) |->
                            IF k < (IF last'.kwargs.row_index < 0
                                    THEN last'.kwargs.row_index + Len(self._rows) + 1
                                    ELSE last'.kwargs.row_index + 1)
                            THEN self._rows[k] ELSE self._rows[k + 1]]]_vars

----------------------------------------------------------------------------
(* ONE TABLE BUILT ROW BY ROW, ANOTHER WITH add_column                     *)
(* Two tables start empty.  The table x, self, is given its field names    *)
(* and then rows; the table y, Val(new), is built by the same calls and    *)
(* by add_column, from no field names or after any of the other calls.     *)

(* the names assigned: the first n of a, b, c, ... *)
BuildNames == {FieldNamesOf(n) : n \in 1..MaxCols}

(* the values of column j: those of the long and of the short row *)
BuildCells(j) == {LongRow(j)[j], ShortRow(j)[j]}

BuildColumns(j) == UNION {[1..k -> BuildCells(j)] : k \in 0..MaxRows}

InitBuild ==
    /\ self = __init__
    /\ last = NoCall
    /\ threads = <<>>
    /\ new = Some(__init__)
    /\ aliased = {}

(* t.field_names = val on a table that has no field names yet *)
NameFields ==
    /\ Idle
    /\ \E t \in Targets, val \in BuildNames :
          /\ The(t)._field_names = <<>>
          /\ On(t, "field_names", [target |-> t], field_names_setter(The(t), val), {}, {})

(* t.add_row(row) on a table that has field names *)
AddRowOnto ==
    /\ Idle
    /\ \E t \in Targets :
          /\ The(t)._field_names # <<>>
          /\ Len(The(t)._rows) < MaxRows
          /\ \E row \in {LongRow(Len(The(t)._field_names)), ShortRow(Len(The(t)._field_names))} :
                On(t, "add_row", [target |-> t], add_row(The(t), row), {}, {})

(* y.add_column(fieldname, column) with the next of the names a, b, c, ... *)
AddColumnOnto ==
    /\ Idle
    /\ Len(Val(new)._field_names) < MaxCols
    /\ \E column \in BuildColumns(Len(Val(new)._field_names) + 1) :
          On("y", "add_column", [target |-> "y"],
             add_column(Val(new), FieldNamesOf(Len(Val(new)._field_names) + 1)
                                     [Len(Val(new)._field_names) + 1],
                        column, "c", Some("t")), {}, {})

NextBuild ==
    \/ NameFields
    \/ AddRowOnto
    \/ AddColumnOnto

SpecBuild == InitBuild /\ [][NextBuild]_vars

(* x and y hold the same field names and the same rows *)
SameData ==
    /\ self._field_names = Val(new)._field_names
    /\ self._rows = Val(new)._rows

(* C21: a table built by field_names and add_row, and a table holding the  *)
(* same field names and rows that was built with add_column calls, from    *)
(* an empty table or after a prefix of the columns was built by            *)
(* field_names and add_row, have equal per-column align and valign, and    *)
(* get_string() and get_html_string() return equal strings for them.       *)
C21_BuildEquivalence ==
    SameData
       => /\ self._align = Val(new)._align
          /\ self._valign = Val(new)._valign
          /\ get_string(self, NoKwargs).raised = ""
          /\ get_string(self, NoKwargs).ret = get_string(Val(new), NoKwargs).ret
          /\ get_html_string(self, NoKwargs).raised = ""
          /\ get_html_string(self, NoKwargs).ret = get_html_string(Val(new), NoKwargs).ret

(* y got its last column from add_column and now holds the two columns and *)
(* the two different rows that x was given row by row                      *)
C21_Witness ==
    /\ SameData
    /\ last.op = "add_column"
    /\ last.raised = ""
    /\ Len(self._field_names) = 2
    /\ Len(self._rows) = 2
    /\ self._rows[1] # self._rows[2]

----------------------------------------------------------------------------
(* A TABLE WRITTEN AS HTML AND READ BACK                                   *)

(* from_html(html_code) for the string that get_html_string returned last; *)
(* last.ret becomes the list of the tables read                            *)
FromHtml ==
    /\ Idle
    /\ last.op = "get_html_string"
    /\ last.raised = ""
    /\ last' = Call("from_html", [html_code |-> last.ret], from_html(last.ret), last.clean)
    /\ UNCHANGED <<self, threads, new, aliased>>

NextHtml ==
    \/ RenderHtml
    \/ FromHtml

SpecHtml == InitRender /\ [][NextHtml]_vars

(* the texts of the cells of the rows *)
CellStrings(rows) == [i \in 1..Len(rows) |-> [j \in 1..Len(rows[i]) |-> _unicode(rows[i][j])]]

(* C22: from_html of the string that get_html_string() returned for the    *)
(* table, with or without a title, gives exactly one table, with the field *)
(* names of the table and rows of the same cell strings in the same order, *)
(* and get_string() of it equals get_string() of the table.                *)
C22_HtmlRoundTrip ==
    (/\ last.op = "from_html"
     /\ last.kwargs.html_code = get_html_string(self, NoKwargs).ret)
       => /\ last.raised = ""
          /\ Len(last.ret) = 1
          /\ last.ret[1]._field_names = self._field_names
          /\ CellStrings(last.ret[1]._rows) = CellStrings(self._rows)
          /\ get_string(last.ret[1], NoKwargs).ret = get_string(self, NoKwargs).ret

----------------------------------------------------------------------------
(* THE WIDTH OF THE TABLE: max_table_width, min_table_width AND THE TITLE  *)
(* get_string is called with a lower or an upper bound for the width of    *)
(* the table and a title, and with one of: a style of vertical rules, a    *)
(* padding, a choice of fields, no header.                                 *)

WidthKwargs ==
    {Override(Override(Override(lower, upper), title), other) :
        lower \in {NoKwargs, [min_table_width |-> Some(12)]},
        upper \in {NoKwargs, [max_table_width |-> Some(8)]},
        title \in {NoKwargs, [title |-> Some(LongTitle)]},
        other \in {NoKwargs, [vrules |-> "FRAME"], [vrules |-> "NONE"], [padding_width |-> 2],
                   [fields |-> Some(<< "a" >>)], [header |-> FALSE]}}

InitWidth ==
    /\ \E n \in 1..MaxCols : \E rows \in RowSeqs(n) : self = Built(n, rows, << "border", TRUE >>)
    /\ last = NoCall
    /\ threads = <<>>
    /\ new = None
    /\ aliased = {}

(* x.get_string with kwargs *)
RenderWidth ==
    /\ Idle
    /\ \E kwargs \in WidthKwargs : Returns("get_string", kwargs, get_string(self, kwargs))

SpecWidth == InitWidth /\ [][RenderWidth]_vars

(* the least width asked for: min_table_width, and the title with the      *)
(* padding on its two sides                                                *)
Floor(options) ==
    Max2(IF options.min_table_width = None THEN 0 ELSE Val(options.min_table_width),
         IF options.title = None THEN 0
         ELSE _str_block_width(Val(options.title)) + _get_padding_widths(options).lpad
                 + _get_padding_widths(options).rpad)

(* C23: when min_table_width or a title is set, every physical line of     *)
(* the string returned by get_string is at least as wide as the larger of  *)
(* min_table_width and the title with its padding, for every style of      *)
(* vertical rules, every padding and every choice of fields.               *)
C23_NeverBelowFloor ==
    (Rendered /\ (LastOptions.min_table_width # None \/ LastOptions.title # None))
       => \A i \in DOMAIN LineWidths(last.ret) : LineWidths(last.ret)[i] >= Floor(LastOptions)

(* the rows that the last call gave to _compute_widths *)
LastRows == _format_rows(self, _get_rows(self, LastOptions).rows)

(* C24: in one render the two adjustments exclude each other: when the     *)
(* first, for max_table_width exceeded, changed the widths, the second,    *)
(* for a table narrower than min_table_width or the title, is not applied. *)
C24_ShrinkExcludesGrow ==
    (Rendered /\ WidthsShrunk(self, LastRows, LastOptions) # WidthsBefore(self, LastRows, LastOptions))
       => ~Grows(self, LastOptions, WidthsShrunk(self, LastRows, LastOptions))

----------------------------------------------------------------------------
(* CELLS OF SEVERAL LINES AND THE VERTICAL ALIGNMENT OF THEIR COLUMNS      *)
(* The table has one row and two columns, each added by add_column with    *)
(* its own valign; the cells are one to MaxHeight lines high.              *)

MaxHeight == 4

(* a cell of h lines: p, q, r, ... one below the other *)
TallCell(h) == Join("\n", [i \in 1..h |-> SubSeq("pqrstuvw", i, i)])

Valigns == {"t", "m", "b"}

InitValign ==
    /\ \E h1, h2 \in 1..MaxHeight, v1, v2 \in Valigns :
          self = add_column(add_column(__init__, "a", << StrCell(TallCell(h1)) >>, "c", Some(v1)).self,
                            "b", << StrCell(TallCell(h2)) >>, "c", Some(v2)).self
    /\ last = NoCall
    /\ threads = <<>>
    /\ new = None
    /\ aliased = {}

(* x.get_string with kwargs *)
RenderValign ==
    /\ Idle
    /\ \E kwargs \in {NoKwargs, [padding_width |-> 0]} :
          Returns("get_string", kwargs, get_string(self, kwargs))

SpecValign == InitValign /\ [][RenderValign]_vars

(* the lines of the cell of column j in the only row of the table *)
CellLines(j) == Split(self._rows[1][j].s, "\n")

(* the height of the row: that of its tallest cell *)
HeightOfRow == Max2(Len(CellLines(1)), Len(CellLines(2)))

(* the number of empty lines above the cell of column j *)
LinesAbove(j) ==
    CASE self._valign[self._field_names[j]] = Some("t") -> 0
      [] self._valign[self._field_names[j]] = Some("b") -> HeightOfRow - Len(CellLines(j))
      [] self._valign[self._field_names[j]] = Some("m") -> (HeightOfRow - Len(CellLines(j))) \div 2

(* C25: in the rendered row of height H a column whose cell has h lines    *)
(* shows them in their order on H lines, with H - h empty lines: all below *)
(* for valign t, all above for b, and for m the half rounded down above    *)
(* and the rest below.                                                     *)
C25_VerticalAlignment ==
    Rendered
       => /\ Len(RenderedRows(last.ret)) = HeightOfRow
          /\ \A j \in 1..2 : \A y \in 1..HeightOfRow :
                RenderedRows(last.ret)[y][j] =
                   (IF y > LinesAbove(j) /\ y <= LinesAbove(j) + Len(CellLines(j))
                    THEN CellLines(j)[y - LinesAbove(j)] ELSE "")

(* a cell of one line was rendered in the middle of a row of four lines:   *)
(* one empty line above it and two below                                   *)
C25_Witness ==
    /\ Rendered
    /\ HeightOfRow = 4
    /\ Len(CellLines(2)) = 1
    /\ self._valign["b"] = Some("m")
    /\ RenderedRows(last.ret)[2][2] = "p"

----------------------------------------------------------------------------
(* A TEXT JUSTIFIED IN A WIDTH                                             *)
(* _justify reads nothing of the table; it is called with a text, a width  *)
(* and an alignment, and last holds the call and what it returned.         *)

MaxWidth == 6

JustifyTexts == {"", "a", "ab", "abc", "a b", " a", "abcd", "abcde"}

(* x._justify(text, width, align) *)
Justify ==
    /\ Idle
    /\ \E text \in JustifyTexts, width \in 0..MaxWidth, align \in {"l", "r", "c"} :
          /\ last' = Call("_justify", [text |-> text, width |-> width, align |-> align],
                          [raised |-> "", ret |-> _justify(text, width, align)], last.clean)
          /\ UNCHANGED <<self, threads, new, aliased>>

SpecJustify == Init /\ [][Justify]_vars

(* text.center(width) of Python: of an odd margin the larger half goes to  *)
(* the left when width is odd                                              *)
str_center(text, width) ==
    IF width <= Len(text) THEN text
    ELSE Rep(" ", (width - Len(text)) \div 2 + (((width - Len(text)) % 2) * (width % 2))) \o text \o
         Rep(" ", (width - Len(text))
                     - ((width - Len(text)) \div 2 + (((width - Len(text)) % 2) * (width % 2))))

(* the spaces that the claim puts on the left of a text of display width t *)
(* justified in width                                                      *)
SpacesLeft(t, width, align) ==
    CASE align = "l" -> 0
      [] align = "r" -> width - t
      [] align = "c" -> (width - t) \div 2 + (IF (width - t) % 2 = 1 /\ t % 2 = 0 THEN 1 ELSE 0)

(* C26: for a text of display width t <= width, _justify returns the text  *)
(* with spaces added and nothing else, of display width exactly width: the *)
(* spaces on the right for l, on the left for r, and for c half of them on *)
(* each side, the odd one on the right when t is odd and on the left when  *)
(* t is even, which is what text.center(width) returns.                    *)
C26_Justify ==
    (last.op = "_justify" /\ _str_block_width(last.kwargs.text) <= last.kwargs.width)
       => /\ _str_block_width(last.ret) = last.kwargs.width
          /\ last.ret =
                Rep(" ", SpacesLeft(_str_block_width(last.kwargs.text), last.kwargs.width,
                                    last.kwargs.align)) \o
                last.kwargs.text \o
                Rep(" ", last.kwargs.width - _str_block_width(last.kwargs.text)
                            - SpacesLeft(_str_block_width(last.kwargs.text), last.kwargs.width,
                                         last.kwargs.align))
          /\ last.kwargs.align = "c" => last.ret = str_center(last.kwargs.text, last.kwargs.width)

(* a text of odd width was centred with an odd number of spaces: the odd   *)
(* space is on the right                                                   *)
C26_Witness ==
    /\ last.op = "_justify"
    /\ last.kwargs = [text |-> "abc", width |-> 6, align |-> "c"]
    /\ last.ret = " abc  "

----------------------------------------------------------------------------
(* THE DISPLAY WIDTH OF A STRING                                           *)
(* _str_block_width is called with a string given by its code points:      *)
(* backspace, delete, a letter, a CJK ideograph, and the characters of the *)
(* escape sequence ESC [ m.                                                *)

MaxLen == 3

CodePoints == {8, 127, 97, 20013, 27, 91, 109}

Strings == UNION {[1..n -> CodePoints] : n \in 0..MaxLen}

(* _str_block_width(val) *)
Measure ==
    /\ Idle
    /\ \E val \in Strings :
          /\ last' = Call("_str_block_width", [val |-> val],
                          [raised |-> "", ret |-> cps_block_width(val)], last.clean)
          /\ UNCHANGED <<self, threads, new, aliased>>

SpecMeasure == Init /\ [][Measure]_vars

(* C27: the display width that _str_block_width returns is not negative,   *)
(* for strings with backspace or delete characters as for all others, and  *)
(* is the sum of the widths of the code points that are left when the SGR  *)
(* escape sequences are removed.                                           *)
C27_WidthNotNegative ==
    last.op = "_str_block_width"
       => /\ last.ret >= 0
          /\ last.ret = SumSeq([i \in 1..Len(_re_sub(last.kwargs.val, 1)) |->
                                  _char_block_width(_re_sub(last.kwargs.val, 1)[i])])

----------------------------------------------------------------------------
(* THE LOOP OF paginate, ONE PAGE AT A TIME                                *)
(* The call in progress is the one element of threads: its page_length,    *)
(* its kwargs with start and end as the loop assigns them, true_end, the   *)
(* pages so far, and the statement of the loop it is at.  Only the last    *)
(* MaxPages pages are kept, more than a call that returns has appended.    *)

MaxPages == MaxRows + 2

PagingLengths == 0..MaxRows

PagingKwargs ==
    {NoKwargs, [start |-> 1], [end |-> Some(1)], [end |-> Some(MaxRows + 1)],
     [start |-> 1, end |-> Some(0)]}

InitPaging ==
    /\ \E rows \in RowSeqs(1) : self = Built(1, rows, << "border", TRUE >>)
    /\ last = NoCall
    /\ threads = <<>>
    /\ new = None
    /\ aliased = {}

(* x.paginate(page_length, kwargs) up to the loop: kwargs["start"] and     *)
(* true_end are set                                                        *)
CallPaginate ==
    /\ Idle
    /\ \E page_length \in PagingLengths, kwargs \in PagingKwargs :
          threads' = << [page_length |-> page_length,
                         kwargs |-> IF "start" \in DOMAIN kwargs THEN kwargs
                                    ELSE Override(kwargs, [start |-> 0]),
                         true_end |-> IF "end" \in DOMAIN kwargs THEN Val(kwargs.end)
                                      ELSE rowcount(self),
                         pages |-> <<>>,
                         at |-> "append"] >>
    /\ UNCHANGED <<self, last, new, aliased>>

(* the pages with one more page *)
WithPage(pages, page) ==
    IF Len(pages) < MaxPages THEN Append(pages, page) ELSE Append(Tail(pages), page)

(* the call is at the first statements of the body of the loop *)
AtAppend == ~Idle /\ threads[1].at = "append"

(* the call is at the test that ends the loop *)
AtBreak == ~Idle /\ threads[1].at = "break"

(* pages.append(r) for r = self.get_string of kw, or the call raises what  *)
(* get_string raised                                                       *)
Appended(f, kw, r) ==
    /\ self' = r.self
    /\ IF r.raised # ""
       THEN /\ threads' = <<>>
            /\ last' = Call("paginate", [page_length |-> f.page_length],
                            [raised |-> r.raised, ret |-> ""], last.clean)
       ELSE /\ threads' = << [f EXCEPT !.kwargs = kw,
                                       !.pages = WithPage(f.pages, r.ret),
                                       !.at = "break"] >>
            /\ UNCHANGED last
    /\ UNCHANGED <<new, aliased>>

Appending(f, kw) == Appended(f, kw, get_string(self, kw))

(* kwargs["end"] = min(kwargs["start"] + page_length, true_end), and the   *)
(* page is rendered and appended                                           *)
AppendPage ==
    /\ AtAppend
    /\ Appending(threads[1],
                 Override(threads[1].kwargs,
                          [end |-> Some(Min2(threads[1].kwargs.start + threads[1].page_length,
                                             threads[1].true_end))]))

(* if kwargs["end"] == true_end: break, and the pages are returned joined; *)
(* otherwise kwargs["start"] += page_length and the loop goes round        *)
Broken(f) ==
    IF Val(f.kwargs.end) = f.true_end
    THEN /\ threads' = <<>>
         /\ last' = Call("paginate", [page_length |-> f.page_length],
                         [raised |-> "", ret |-> Join("\f", f.pages)], last.clean)
    ELSE /\ threads' = << [f EXCEPT !.kwargs = Override(f.kwargs,
                                                        [start |-> f.kwargs.start + f.page_length]),
                                    !.at = "append"] >>
         /\ UNCHANGED last

BreakOrTurn ==
    /\ AtBreak
    /\ Broken(threads[1])
    /\ UNCHANGED <<self, new, aliased>>

NextPaging ==
    \/ CallPaginate
    \/ AppendPage
    \/ BreakOrTurn

(* A call in progress goes on, statement after statement.  AppendPage      *)
(* always leaves the statement it is at, so that it is enabled exactly     *)
(* when AtAppend holds, and its weak fairness is written with AtAppend in  *)
(* the place of ENABLED.                                                   *)
FairAppendPage == []<>(~AtAppend) \/ []<><<AppendPage>>_vars

SpecPaging == InitPaging /\ [][NextPaging]_vars /\ WF_vars(BreakOrTurn) /\ FairAppendPage

(* C28: paginate ends for every table, every page_length >= 0 and every    *)
(* start and end given: a call in progress returns or raises after         *)
(* finitely many turns of its loop.                                        *)
C28_PaginateTerminates == (~Idle) ~> Idle

----------------------------------------------------------------------------
(* AN ASSIGNMENT TO A CONFIGURATION ATTRIBUTE THAT IS REFUSED              *)
(* A table of two columns; every step assigns one attribute, with values   *)
(* that are accepted and values that are refused.                          *)

AssignedNames == {<<"a", "b">>, <<"a", "a">>, <<"a">>}

AssignedAligns == {None, Some("l"), Some("x")}

AssignedValigns == {None, Some("b"), Some("x")}

ItemValigns == {Some("b"), Some("x")}

ItemFormats == {"03", "x"}

(* the dicts over the field names a and b, in both orders of insertion,    *)
(* the dict of the one key a, and the empty dict                           *)
DictsOf(values) ==
    {<<>>} \cup {<< <<"a", v>> >> : v \in values} \cup
    {<< <<f[1], v>>, <<f[2], w>> >> : f \in {<<"a", "b">>, <<"b", "a">>}, v \in values, w \in values}

AssignedFormats == {None, Some("03"), Some("x")}

AssignedWidths == {Some(3), Some(0 - 1)}

AssignedOptions ==
    {<<"padding_width", 0 - 1>>, <<"hrules", "x">>, <<"header", FALSE>>, <<"sortby", Some("z")>>,
     <<"fields", Some(<<"a", "z">>)>>}

InitAssign ==
    /\ \E rows \in RowSeqs(2) : self = Built(2, rows, << "border", TRUE >>)
    /\ last = NoCall
    /\ threads = <<>>
    /\ new = None
    /\ aliased = {}

(* x.field_names = val *)
SetNames ==
    /\ Idle
    /\ \E val \in AssignedNames : Changes("field_names", field_names_setter(self, val))

(* x.align = val *)
SetAlign ==
    /\ Idle
    /\ \E val \in AssignedAligns : Changes("align", align_setter(self, val))

(* x.valign = val, for None or one alignment *)
SetValign ==
    /\ Idle
    /\ \E val \in AssignedValigns : Changes("valign", valign_setter(self, val))

(* x.valign = val, for a dict *)
SetValignDict ==
    /\ Idle
    /\ \E val \in DictsOf(ItemValigns) : Changes("valign", valign_setter_dict(self, val))

(* x.int_format = val, for None or one format *)
SetIntFormat ==
    /\ Idle
    /\ \E val \in AssignedFormats : Changes("int_format", int_format_setter(self, val))

(* x.int_format = val, for a dict *)
SetIntFormatDict ==
    /\ Idle
    /\ \E val \in DictsOf(ItemFormats) : Changes("int_format", int_format_setter_dict(self, val))

(* x.max_width = val *)
SetMaxWidth ==
    /\ Idle
    /\ \E val \in AssignedWidths : Changes("max_width", max_width_setter(self, val))

(* x.min_width = val *)
SetMinWidth ==
    /\ Idle
    /\ \E val \in AssignedWidths : Changes("min_width", min_width_setter(self, val))

(* x.<option> = val *)
SetOption ==
    /\ Idle
    /\ \E a \in AssignedOptions : Changes(a[1], option_setter(self, a[1], a[2]))

NextAssign ==
    \/ SetNames
    \/ SetAlign
    \/ SetValign
    \/ SetValignDict
    \/ SetIntFormat
    \/ SetIntFormatDict
    \/ SetMaxWidth
    \/ SetMinWidth
    \/ SetOption

SpecAssign == InitAssign /\ [][NextAssign]_vars

(* C29: an assignment to a configuration attribute that raises             *)
(* PrettyTableException leaves the table as it was: every per-column       *)
(* entry and every option keeps the value it had before the assignment.    *)
C29_RefusedAssignmentKeepsTable == [][last'.raised = PTE => self' = self]_vars

----------------------------------------------------------------------------
(* A TABLE PRINTED WITH THE fields FILTER, AND THE TABLE WITHOUT THE       *)
(* OTHER COLUMNS                                                           *)
(* x has the columns a and b; the other table is built in the same way     *)
(* from the kept columns only, in the order of x.                          *)

FilterNames == <<"a", "b">>

(* the rows of x: the second column holds a short cell, a cell of two      *)
(* lines or a wide cell                                                    *)
FilterRows ==
    {<<StrCell("xxx"), StrCell("y")>>, <<StrCell("x"), StrCell("y\ny")>>,
     <<StrCell("x"), StrCell("yyyyyyyy")>>}

FilterRowSeqs == UNION {[1..n -> FilterRows] : n \in 1..MaxRows}

(* the columns kept, as sets of positions *)
Kept == {{1}, {2}, {1, 2}}

(* seq without the elements at the positions not in keep *)
RECURSIVE Project(_, _, _)
Project(seq, keep, i) ==
    IF i > Len(seq) THEN <<>>
    ELSE (IF i \in keep THEN << seq[i] >> ELSE <<>>) \o Project(seq, keep, i + 1)

FilterKwargs ==
    {NoKwargs, [title |-> Some(LongTitle)], [max_table_width |-> Some(8)],
     [min_table_width |-> Some(12)], [header |-> FALSE], [vrules |-> "NONE"]}

InitFilter ==
    /\ \E rows \in FilterRowSeqs, keep \in Kept :
          /\ self = AddRows(field_names_setter(__init__, FilterNames).self, rows)
          /\ new = Some(AddRows(field_names_setter(__init__, Project(FilterNames, keep, 1)).self,
                                [i \in 1..Len(rows) |-> Project(rows[i], keep, 1)]))
    /\ last = NoCall
    /\ threads = <<>>
    /\ aliased = {}

(* the lists of the names of names, in every order *)
Orders(names) ==
    {f \in [1..Len(names) -> SeqToSet(names)] : SeqToSet(f) = SeqToSet(names)}

(* x.get_string(fields=F, kwargs) for F the columns of the other table *)
RenderFiltered ==
    /\ Idle
    /\ \E fields \in Orders(Val(new)._field_names), kwargs \in FilterKwargs :
          Returns("get_string", Override(kwargs, [fields |-> Some(fields)]),
                  get_string(self, Override(kwargs, [fields |-> Some(fields)])))

SpecFilter == InitFilter /\ [][RenderFiltered]_vars

(* the keyword arguments of the last call without fields *)
Unfiltered == [k \in DOMAIN last.kwargs \ {"fields"} |-> last.kwargs[k]]

(* C30: get_string with fields=F on a table returns the string that        *)
(* get_string with the same other arguments returns on the table without   *)
(* the columns not in F, and raises when that call raises.                 *)
C30_FilterIsProjection ==
    last.op = "get_string" =>
        /\ last.raised = get_string(Val(new), Unfiltered).raised
        /\ last.ret = get_string(Val(new), Unfiltered).ret

============================================================================
